---- MODULE Spec2Model ----
(***************************************************************************)
(* A model of vikunja-mcp-py: the dependency checker                       *)
(* (src/dependencies/checker.py), the focus engine                         *)
(* (src/engine/focus_engine.py), the tool handlers                         *)
(* (src/tools/handlers.py) and the context manager (src/context.py).       *)
(*                                                                         *)
(* A task is a record holding the fields of Task and of its RawTask that   *)
(* the modelled code reads:                                                *)
(*   id, done, priority, project_id   RawTask fields                       *)
(*   metadata                         Task.metadata: NoMeta or             *)
(*                                    [energy, mode]                       *)
(*   blocked, blocking                related_tasks["blocked"] and         *)
(*                                    related_tasks["blocking"]: sequences *)
(*                                    of peer references [id, done]        *)
(* Scores and confidences are counted in tenths: 6 stands for 0.6.         *)
(* Switch costs are counted in two-hundredths: 200 stands for 1.0.         *)
(***************************************************************************)
EXTENDS Integers, Sequences, FiniteSets, TLC

VARIABLES
    \* DependencyChecker.filter_blocked_tasks: one call
    dep_pc,          \* "idle" | "returned"
    dep_tasks,       \* the argument
    dep_result,      \* [actionable, blocked], the returned pair
    \* ToolHandlers.get_filtered_tasks: one call
    gf_pc,           \* "idle" | "direct" | "suggest" | "execute" | "returned" | "raised"
    gf_args,         \* [filter, natural_request, project_id, limit]
    gf_attempt,      \* the loop variable `attempt`
    gf_attempts,     \* the list `attempts`
    gf_final_filter, \* the local `final_filter`
    gf_result,       \* the response returned or the error raised
    gf_requests,     \* history: previous_errors of each suggest_filter call
    gf_answers,      \* history: what the oracle did on each of them
    gf_queries,      \* history: the filters sent to the task source
    gf_errors,       \* history: the errors the task source raised
    \* ToolHandlers.daily_focus and FocusEngine.get_focus_tasks: one request
    fe_pc,           \* "idle" | "oracle" | "returned" | "raised"
    fe_tasks,        \* the argument `tasks`
    fe_options,      \* the argument `options`
    fe_actionable,   \* the local `actionable_tasks`
    fe_blocked,      \* the local `blocked_tasks`
    fe_result,       \* the DecisionResponse returned or the error raised
    fe_stages,       \* history: the stages the request went through
    fe_answer,       \* history: what the oracle did on the ranking request: it
                     \* raised, or answered with text that is not JSON or with
                     \* an object holding the fields named
    df_result,       \* what daily_focus returned
    \* ContextManager.calculate_switch_cost: one call
    sw_pc,           \* "idle" | "returned"
    sw_from,         \* the argument from_project (NoContext for None)
    sw_to,           \* the argument to_project
    sw_cost,         \* the returned cost
    \* ContextManager.optimize_task_order: one call
    ord_pc,          \* "idle" | "returned"
    ord_tasks,       \* the argument `tasks`
    ord_projects,    \* the argument `projects`
    ord_current,     \* the argument current_project_id (NoProject for None)
    ord_result,      \* the returned list
    \* DependencyChecker.get_unblocking_tasks: one call
    ub_pc,           \* "idle" | "returned"
    ub_tasks,        \* the argument
    ub_result,       \* the returned list
    \* DependencyChecker.get_blocking_info and calculate_chain_progress: one
    \* call, walked step by step
    ch_pc,           \* "idle" | "root" | "build" | "analyze" | "returned"
    ch_op,           \* "get_blocking_info" | "calculate_chain_progress"
    ch_tasks,        \* the argument all_tasks / tasks; task_map is built from it
    ch_task,         \* the task under analysis
    ch_queue,        \* the tasks the for loop has still to analyse
    ch_stack,        \* the frames of the recursion: [id, next], next an index
                     \* into the list the frame's for loop walks
    ch_visited,      \* the set `visited` of the walk in progress
    ch_up,           \* history: the ids whose _find_chain_root body ran
    ch_down,         \* history: the ids whose _build_chain_order body ran
    ch_root,         \* root_id
    ch_chain,        \* chain_tasks, as far as built
    ch_result,       \* the BlockingInfo or the progress map, as far as built
    \* FocusEngine._parse_ranking_response on an oracle ranking of any length
    pr_pc,           \* "idle" | "answering" | "parsed"
    pr_tasks,        \* the candidate tasks the oracle ranked
    pr_items,        \* data["ranked_tasks"], as far as the oracle has written it
    pr_confidence,   \* data.get("confidence"): [has_confidence, confidence]
    pr_result,       \* the DecisionResponse
    \* ToolHandlers.add_comment, bulk_update_tasks and upsert_task: one call.
    \* An optional argument is <<>> for None and <<v>> for the value v.
    tl_pc,           \* "idle" | "returned" | "raised"
    tl_call,         \* the handler called and its arguments
    tl_result,       \* the response returned or the error raised
    tl_source,       \* history: the calls made to the task source
    \* A task is loaded (_parse_task), enriched (FocusEngine.enrich_task) and
    \* loaded again from the description written back
    en_pc,           \* "idle" | "loaded" | "returned" | "reloaded"
    en_task,         \* the Task as loaded: [description, metadata, clean_description]
    en_answer,       \* history: what the oracle did on the enrichment request
    en_calls,        \* history: the number of oracle calls
    en_result,       \* the pair enrich_task returned: [task, enriched]
    en_reloaded,     \* the Task loaded from the description of the returned task
    \* One ContextManager and the get_context calls of a session. A call has
    \* no await in it: the calls of concurrent requests run one after the
    \* other, in any order.
    cx_pc,           \* "new" | "ready"
    cx_config,       \* self._config: the context of each project id, NoContext
                     \* for an id that is not a key
    cx_given,        \* history: the arguments of __init__, [file, explicit]
    cx_first,        \* history: what the first get_context of each id returned
    cx_call,         \* history: the last call, [project, held, returned,
                     \* request], held being self._config's entry before it
    \* One call of FocusEngine._apply_filters.
    af_pc,           \* "idle" | "returned"
    af_tasks,        \* the argument tasks
    af_options,      \* the argument options
    af_result        \* the returned pair [actionable, blocked]

depVars == <<dep_pc, dep_tasks, dep_result>>

gfVars == <<gf_pc, gf_args, gf_attempt, gf_attempts, gf_final_filter, gf_result,
            gf_requests, gf_answers, gf_queries, gf_errors>>

feVars == <<fe_pc, fe_tasks, fe_options, fe_actionable, fe_blocked, fe_result,
            fe_stages, fe_answer, df_result>>

swVars == <<sw_pc, sw_from, sw_to, sw_cost>>

ordVars == <<ord_pc, ord_tasks, ord_projects, ord_current, ord_result>>

ubVars == <<ub_pc, ub_tasks, ub_result>>

chVars == <<ch_pc, ch_op, ch_tasks, ch_task, ch_queue, ch_stack, ch_visited,
            ch_up, ch_down, ch_root, ch_chain, ch_result>>

prVars == <<pr_pc, pr_tasks, pr_items, pr_confidence, pr_result>>

tlVars == <<tl_pc, tl_call, tl_result, tl_source>>

enVars == <<en_pc, en_task, en_answer, en_calls, en_result, en_reloaded>>

cxVars == <<cx_pc, cx_config, cx_given, cx_first, cx_call>>

afVars == <<af_pc, af_tasks, af_options, af_result>>

vars == <<depVars, gfVars, feVars, swVars, ordVars, ubVars, chVars, prVars, tlVars, enVars, cxVars, afVars>>

----------------------------------------------------------------------------
(* Bounds of the model *)

\* longest task list handed to filter_blocked_tasks
MaxDepTasks == 3
\* most "blocked" peer references on one task
MaxPeers == 2

----------------------------------------------------------------------------
(* Sequences *)

SeqsUpTo(S, n) == UNION {[1..k -> S] : k \in 0..n}

Range(s) == {s[i] : i \in DOMAIN s}

----------------------------------------------------------------------------
(* models.py *)

\* Task.metadata is None
NoMeta == [energy |-> "none", mode |-> "none"]

EnergyLevel == {"low", "medium", "high", "social"}

WorkMode == {"deep", "quick", "admin"}

\* RelatedTaskInfo: the fields the code reads
RelatedTaskInfo == [id : Nat, done : BOOLEAN]

\* RawTask.is_blocked: some "blocked" peer reference is not done
\* (as it would be if the done flag of the references were not read)
is_blocked_any_peer(t) == t.blocked # <<>>

is_blocked(t) == \E i \in DOMAIN t.blocked : ~t.blocked[i].done

\* RawTask.blocked_by_ids, RawTask.blocking_ids
blocked_by_ids(t) == [i \in DOMAIN t.blocked |-> t.blocked[i].id]

blocking_ids(t) == [i \in DOMAIN t.blocking |-> t.blocking[i].id]

----------------------------------------------------------------------------
(* dependencies/checker.py: filter_blocked_tasks *)

\* the for loop of filter_blocked_tasks, from position i on
RECURSIVE FilterBlockedLoop(_, _, _, _)
FilterBlockedLoop(tasks, i, actionable, blocked) ==
    IF i > Len(tasks) THEN [actionable |-> actionable, blocked |-> blocked]
    ELSE IF is_blocked(tasks[i])
         THEN FilterBlockedLoop(tasks, i + 1, actionable, Append(blocked, tasks[i]))
         ELSE FilterBlockedLoop(tasks, i + 1, Append(actionable, tasks[i]), blocked)

\* a loop that prepends instead of appending
RECURSIVE FilterBlockedPrepend(_, _, _, _)
FilterBlockedPrepend(tasks, i, actionable, blocked) ==
    IF i > Len(tasks) THEN [actionable |-> actionable, blocked |-> blocked]
    ELSE IF is_blocked(tasks[i])
         THEN FilterBlockedPrepend(tasks, i + 1, actionable, <<tasks[i]>> \o blocked)
         ELSE FilterBlockedPrepend(tasks, i + 1, <<tasks[i]>> \o actionable, blocked)

filter_blocked_tasks_reversed(tasks) == FilterBlockedPrepend(tasks, 1, <<>>, <<>>)

filter_blocked_tasks(tasks) == FilterBlockedLoop(tasks, 1, <<>>, <<>>)

----------------------------------------------------------------------------
(* Inputs of the dependency checker *)

\* the "blocked" peers of a task: other tasks' ids, each with the done flag
\* the reference carries
PeerLists == SeqsUpTo(BOOLEAN, MaxPeers)

PeerRefs(flags) == [i \in DOMAIN flags |-> [id |-> 100 + i, done |-> flags[i]]]

\* the task at position i of a list: ids are distinct
DepTask(i, done, flags) ==
    [id |-> i, done |-> done, priority |-> 0, project_id |-> 1,
     metadata |-> NoMeta, blocked |-> PeerRefs(flags), blocking |-> <<>>]

\* the task list with done flags d and peer flags f, position by position
DepTaskList(d, f) == [i \in DOMAIN d |-> DepTask(i, d[i], f[i])]

----------------------------------------------------------------------------
(* The dependency checker as a state machine *)

DepInit ==
    /\ dep_pc = "idle"
    /\ dep_tasks = <<>>
    /\ dep_result = [actionable |-> <<>>, blocked |-> <<>>]

\* one call of DependencyChecker.filter_blocked_tasks(tasks)
FilterBlockedTasks ==
    /\ dep_pc = "idle"
    /\ \E n \in 0..MaxDepTasks :
          \E d \in [1..n -> BOOLEAN], f \in [1..n -> PeerLists] :
              /\ dep_tasks' = DepTaskList(d, f)
              /\ dep_result' = filter_blocked_tasks(DepTaskList(d, f))
    /\ dep_pc' = "returned"

\* the caller takes the result; the checker is stateless and ready again
DepNextCall ==
    /\ dep_pc = "returned"
    /\ dep_pc' = "idle"
    /\ dep_tasks' = <<>>
    /\ dep_result' = [actionable |-> <<>>, blocked |-> <<>>]

DepNext ==
    \/ FilterBlockedTasks /\ UNCHANGED <<gfVars, feVars, swVars, ordVars, ubVars, chVars, prVars, tlVars, enVars, cxVars, afVars>>
    \/ DepNextCall /\ UNCHANGED <<gfVars, feVars, swVars, ordVars, ubVars, chVars, prVars, tlVars, enVars, cxVars, afVars>>

----------------------------------------------------------------------------
(* Text. A text is a sequence of tokens: "FENCE" is a code fence (three   *)
(* backquotes), "\n" a line break, " " a blank, anything else a run of     *)
(* other characters.                                                       *)

\* None or the empty string: `if not filter` takes the two alike
NoText == <<>>

Whitespace == {" ", "\n"}

RECURSIVE lstrip(_)
lstrip(t) == IF t # <<>> /\ Head(t) \in Whitespace THEN lstrip(Tail(t)) ELSE t

RECURSIVE rstrip(_)
rstrip(t) ==
    IF t # <<>> /\ t[Len(t)] \in Whitespace THEN rstrip(SubSeq(t, 1, Len(t) - 1)) ELSE t

\* str.strip()
strip(t) == rstrip(lstrip(t))

\* the first and the last position of token tok in t, 0 if there is none
FirstIndex(t, tok) ==
    IF \E i \in DOMAIN t : t[i] = tok
    THEN CHOOSE i \in DOMAIN t : t[i] = tok /\ \A j \in 1..(i - 1) : t[j] # tok
    ELSE 0

LastIndex(t, tok) ==
    IF \E i \in DOMAIN t : t[i] = tok
    THEN CHOOSE i \in DOMAIN t : t[i] = tok /\ \A j \in (i + 1)..Len(t) : t[j] # tok
    ELSE 0

\* t.split("\n", 1)[-1]: what follows the first line break, or all of t
AfterFirstLine(t) ==
    IF FirstIndex(t, "\n") = 0 THEN t ELSE SubSeq(t, FirstIndex(t, "\n") + 1, Len(t))

\* t.rsplit("FENCE", 1)[0]: what precedes the last fence
BeforeLastFence(t) == SubSeq(t, 1, LastIndex(t, "FENCE") - 1)

\* str(project_id)
IntStr(n) == CASE n = 0 -> "0" [] n = 5 -> "5" [] OTHER -> "n"

----------------------------------------------------------------------------
(* engine/focus_engine.py: suggest_filter *)

DefaultFilter == <<"done = false">>

\* the clean-up of response.text in suggest_filter
CleanFilterText(text) ==
    LET a == strip(text)
        b == IF a # <<>> /\ Head(a) = "FENCE" THEN AfterFirstLine(a) ELSE a
        c == IF b # <<>> /\ b[Len(b)] = "FENCE" THEN BeforeLastFence(b) ELSE b
    IN  strip(c)

\* what a generate_content call does: it raises, or it returns a text
OracleFailed == [ok |-> FALSE, text |-> <<>>]

OracleText(t) == [ok |-> TRUE, text |-> t]

\* suggest_filter's value: the cleaned text, or the filter of its except branch
suggest_filter_result(answer) ==
    IF answer.ok THEN CleanFilterText(answer.text) ELSE DefaultFilter

----------------------------------------------------------------------------
(* tools/handlers.py: get_filtered_tasks *)

max_retries_one_more == 3 + 1

max_retries == 3

\* `if project_id: final_filter = f"({final_filter}) && project_id = {project_id}"`
WithProjectClause(f, project_id) ==
    IF project_id # 0
    THEN <<"(">> \o f \o <<") && project_id = ", IntStr(project_id)>>
    ELSE f

Min(a, b) == IF a <= b THEN a ELSE b

\* _build_filter_response(raw_tasks[:limit], filter_type, filter_used)
_build_filter_response(n_tasks, filter_type, filter_used) ==
    [message |-> "Filtered tasks retrieved successfully",
     summary |-> [total_tasks |-> n_tasks, filter_type |-> filter_type,
                  filter_used |-> filter_used]]

\* with the retry entries counted one too many
RetrySummaryOffByOne(summary, attempts) ==
    IF attempts # <<>>
    THEN [retry_attempts |-> Len(attempts) + 1, previous_errors |-> attempts] @@ summary
    ELSE summary

\* `if attempts:` the summary gets retry_attempts and previous_errors
RetrySummary(summary, attempts) ==
    IF attempts # <<>>
    THEN [retry_attempts |-> Len(attempts), previous_errors |-> attempts] @@ summary
    ELSE summary

\* the report of the ValueError raised when the retries are exhausted
error_report(natural_request, attempts) ==
    [error |-> "Failed to generate valid filter after maximum retries",
     original_request |-> natural_request,
     total_attempts |-> max_retries,
     attempts |-> attempts,
     suggestion |-> "Try rephrasing your request or use a direct filter expression."]

NoResult == [kind |-> "none"]

GfInit ==
    /\ gf_pc = "idle"
    /\ gf_args = [filter |-> NoText, natural_request |-> NoText, project_id |-> 0, limit |-> 0]
    /\ gf_attempt = 0
    /\ gf_attempts = <<>>
    /\ gf_final_filter = NoText
    /\ gf_result = NoResult
    /\ gf_requests = <<>>
    /\ gf_answers = <<>>
    /\ gf_queries = <<>>
    /\ gf_errors = <<>>

\* an entry that turns to the oracle whenever a natural_request is given
GetFilteredTasksFromNaturalFirst(filter, natural_request, project_id, limit) ==
    /\ gf_args' = [filter |-> filter, natural_request |-> natural_request,
                   project_id |-> project_id, limit |-> limit]
    /\ gf_attempt' = 0
    /\ gf_attempts' = <<>>
    /\ IF filter = NoText /\ natural_request = NoText
       THEN /\ gf_pc' = "raised"
            /\ gf_result' = [kind |-> "ValueError",
                             message |-> "Either 'filter' or 'natural_request' must be provided"]
            /\ UNCHANGED <<gf_final_filter, gf_requests, gf_queries>>
       ELSE IF natural_request = NoText
       THEN /\ gf_pc' = "direct"
            /\ gf_final_filter' = WithProjectClause(filter, project_id)
            /\ gf_queries' = Append(gf_queries, WithProjectClause(filter, project_id))
            /\ UNCHANGED <<gf_result, gf_requests>>
       ELSE /\ gf_pc' = "suggest"
            /\ gf_requests' = Append(gf_requests, <<>>)
            /\ UNCHANGED <<gf_result, gf_final_filter, gf_queries>>
    /\ UNCHANGED <<gf_answers, gf_errors>>

\* get_filtered_tasks up to its first await: the validation, then either the
\* direct filter's query or the first suggest_filter call
GetFilteredTasksFrom(filter, natural_request, project_id, limit) ==
    /\ gf_args' = [filter |-> filter, natural_request |-> natural_request,
                   project_id |-> project_id, limit |-> limit]
    /\ gf_attempt' = 0
    /\ gf_attempts' = <<>>
    /\ IF filter = NoText /\ natural_request = NoText
       THEN /\ gf_pc' = "raised"
            /\ gf_result' = [kind |-> "ValueError",
                             message |-> "Either 'filter' or 'natural_request' must be provided"]
            /\ UNCHANGED <<gf_final_filter, gf_requests, gf_queries>>
       ELSE IF filter # NoText
       THEN /\ gf_pc' = "direct"
            /\ gf_final_filter' = WithProjectClause(filter, project_id)
            /\ gf_queries' = Append(gf_queries, WithProjectClause(filter, project_id))
            /\ UNCHANGED <<gf_result, gf_requests>>
       ELSE /\ gf_pc' = "suggest"
            /\ gf_requests' = Append(gf_requests, <<>>)
            /\ UNCHANGED <<gf_result, gf_final_filter, gf_queries>>
    /\ UNCHANGED <<gf_answers, gf_errors>>

\* the inputs of get_filtered_tasks
FilterExprs == {"done = false", "priority >= 3"}

\* what the oracle may answer: the bare expression, with blanks around it,
\* in a fenced block, or between fences on one line
OracleFilterTexts ==
    UNION { { <<e>>, <<" ", e, "\n">>, <<"FENCE", "\n", e, "\n", "FENCE">>, <<"FENCE", e, "FENCE">> }
            : e \in FilterExprs }

SourceErrors == {"Parse error", "HTTP 400"}

\* how many tasks the task source returns for a filter it accepts
SourceCounts == {0, 2}

GetFilteredTasks ==
    /\ gf_pc = "idle"
    /\ \E filter \in {NoText, <<"done = false">>},
          natural_request \in {NoText, <<"show tasks">>},
          project_id \in {0, 5}, limit \in {1, 50} :
          GetFilteredTasksFrom(filter, natural_request, project_id, limit)

\* the task source answers the direct filter's query with n tasks
DirectQueryReturns ==
    /\ gf_pc = "direct"
    /\ gf_pc' = "returned"
    /\ \E n \in SourceCounts :
          gf_result' = [kind |-> "response"] @@
              _build_filter_response(Min(n, gf_args.limit), "expression", gf_final_filter)
    /\ UNCHANGED <<gf_args, gf_attempt, gf_attempts, gf_final_filter,
                   gf_requests, gf_answers, gf_queries, gf_errors>>

\* the task source rejects the direct filter: one ValueError, no retry
DirectQueryFails ==
    /\ gf_pc = "direct"
    /\ gf_pc' = "raised"
    /\ \E e \in SourceErrors :
          /\ gf_result' = [kind |-> "ValueError", message |-> "Invalid filter expression",
                           filter |-> gf_args.filter, error |-> e]
          /\ gf_errors' = Append(gf_errors, e)
    /\ UNCHANGED <<gf_args, gf_attempt, gf_attempts, gf_final_filter,
                   gf_requests, gf_answers, gf_queries>>

\* suggest_filter's oracle call ends (answer: a text, or OracleFailed);
\* suggest_filter returns, the project clause is added and the filter is
\* sent to the task source
SuggestFilterReturns ==
    /\ gf_pc = "suggest"
    /\ gf_pc' = "execute"
    /\ \E answer \in {OracleText(t) : t \in OracleFilterTexts} \cup {OracleFailed} :
          /\ gf_answers' = Append(gf_answers, answer)
          /\ gf_final_filter' =
                 WithProjectClause(suggest_filter_result(answer), gf_args.project_id)
    /\ gf_queries' = Append(gf_queries, gf_final_filter')
    /\ UNCHANGED <<gf_args, gf_attempt, gf_attempts, gf_result, gf_requests, gf_errors>>

\* the task source answers the generated filter's query with n tasks
ExecuteReturns ==
    /\ gf_pc = "execute"
    /\ gf_pc' = "returned"
    /\ \E n \in SourceCounts :
          gf_result' =
             LET response == _build_filter_response(Min(n, gf_args.limit),
                                                    "natural_language", gf_final_filter)
             IN  [kind |-> "response", message |-> response.message,
                  summary |-> RetrySummary(response.summary, gf_attempts)]
    /\ UNCHANGED <<gf_args, gf_attempt, gf_attempts, gf_final_filter,
                   gf_requests, gf_answers, gf_queries, gf_errors>>

\* an except branch whose next suggest_filter call is given the last failed
\* attempt only
ExecuteFailsLastOnly ==
    /\ gf_pc = "execute"
    /\ \E e \in SourceErrors :
          /\ gf_attempts' = Append(gf_attempts, [filter |-> gf_final_filter, error |-> e])
          /\ gf_errors' = Append(gf_errors, e)
    /\ gf_attempt' = gf_attempt + 1
    /\ IF gf_attempt + 1 < max_retries
       THEN /\ gf_pc' = "suggest"
            /\ gf_requests' = Append(gf_requests, <<gf_attempts'[Len(gf_attempts')]>>)
            /\ UNCHANGED gf_result
       ELSE /\ gf_pc' = "raised"
            /\ gf_result' = [kind |-> "ValueError",
                             report |-> error_report(gf_args.natural_request, gf_attempts')]
            /\ UNCHANGED gf_requests
    /\ UNCHANGED <<gf_args, gf_final_filter, gf_answers, gf_queries>>

\* the task source rejects the generated filter: the except branch records
\* the attempt; the loop goes on with the next suggest_filter call or, after
\* max_retries attempts, ends and the aggregated ValueError is raised
ExecuteFails ==
    /\ gf_pc = "execute"
    /\ \E e \in SourceErrors :
          /\ gf_attempts' = Append(gf_attempts, [filter |-> gf_final_filter, error |-> e])
          /\ gf_errors' = Append(gf_errors, e)
    /\ gf_attempt' = gf_attempt + 1
    /\ IF gf_attempt + 1 < max_retries
       THEN /\ gf_pc' = "suggest"
            /\ gf_requests' = Append(gf_requests, gf_attempts')
            /\ UNCHANGED gf_result
       ELSE /\ gf_pc' = "raised"
            /\ gf_result' = [kind |-> "ValueError",
                             report |-> error_report(gf_args.natural_request, gf_attempts')]
            /\ UNCHANGED gf_requests
    /\ UNCHANGED <<gf_args, gf_final_filter, gf_answers, gf_queries>>

GfNext ==
    \/ GetFilteredTasks /\ UNCHANGED <<depVars, feVars, swVars, ordVars, ubVars, chVars, prVars, tlVars, enVars, cxVars, afVars>>
    \/ DirectQueryReturns /\ UNCHANGED <<depVars, feVars, swVars, ordVars, ubVars, chVars, prVars, tlVars, enVars, cxVars, afVars>>
    \/ DirectQueryFails /\ UNCHANGED <<depVars, feVars, swVars, ordVars, ubVars, chVars, prVars, tlVars, enVars, cxVars, afVars>>
    \/ SuggestFilterReturns /\ UNCHANGED <<depVars, feVars, swVars, ordVars, ubVars, chVars, prVars, tlVars, enVars, cxVars, afVars>>
    \/ ExecuteReturns /\ UNCHANGED <<depVars, feVars, swVars, ordVars, ubVars, chVars, prVars, tlVars, enVars, cxVars, afVars>>
    \/ ExecuteFails /\ UNCHANGED <<depVars, feVars, swVars, ordVars, ubVars, chVars, prVars, tlVars, enVars, cxVars, afVars>>

----------------------------------------------------------------------------
(* engine/focus_engine.py: the contextual filters *)

\* energy_order.index(e)
EnergyIndex(e) == CASE e = "low" -> 0 [] e = "medium" -> 1 [] e = "high" -> 2

\* an energy test that lets SOCIAL match every energy
_energy_matches_any_social(task_energy, user_energy) ==
    IF task_energy = "social" \/ user_energy = "social"
    THEN TRUE
    ELSE EnergyIndex(task_energy) <= EnergyIndex(user_energy)

_energy_matches(task_energy, user_energy) ==
    IF task_energy = "social" \/ user_energy = "social"
    THEN task_energy = user_energy
    ELSE EnergyIndex(task_energy) <= EnergyIndex(user_energy)

_mode_matches(task_mode, user_mode) == task_mode = user_mode \/ user_mode = "admin"

\* the four list comprehensions of _apply_filters
FilterByProjects(tasks, options) ==
    LET only == IF options.only_projects # {}
                THEN SelectSeq(tasks, LAMBDA t : t.project_id \in options.only_projects)
                ELSE tasks
    IN  IF options.exclude_projects # {}
        THEN SelectSeq(only, LAMBDA t : t.project_id \notin options.exclude_projects)
        ELSE only

FilterCompleted(tasks) == SelectSeq(tasks, LAMBDA t : ~t.done)

FilterByEnergyMode(tasks, options) ==
    SelectSeq(tasks, LAMBDA t :
        \/ t.metadata = NoMeta
        \/ /\ _energy_matches(t.metadata.energy, options.energy)
           /\ _mode_matches(t.metadata.mode, options.mode))

\* without the filter on completed tasks
_apply_filters_keeping_done(tasks, options) ==
    filter_blocked_tasks(FilterByEnergyMode(FilterByProjects(tasks, options), options))

_apply_filters(tasks, options) ==
    filter_blocked_tasks(
        FilterByEnergyMode(FilterCompleted(FilterByProjects(tasks, options)), options))

----------------------------------------------------------------------------
(* Sorting. sorted(..., reverse=True) and list.sort(reverse=True) are       *)
(* stable: elements with equal keys keep the order they had.                *)

\* the positions 1..Len(keys) ordered by descending key, position i put
\* behind every position already placed whose key is not smaller
RECURSIVE InsertDesc(_, _, _)
InsertDesc(placed, i, keys) ==
    IF placed = <<>> THEN <<i>>
    ELSE IF keys[Head(placed)] >= keys[i]
         THEN <<Head(placed)>> \o InsertDesc(Tail(placed), i, keys)
         ELSE <<i>> \o placed

RECURSIVE OrderDescUpTo(_, _)
OrderDescUpTo(keys, n) ==
    IF n = 0 THEN <<>> ELSE InsertDesc(OrderDescUpTo(keys, n - 1), n, keys)

\* an ascending sort
RECURSIVE InsertAsc(_, _, _)
InsertAsc(placed, i, keys) ==
    IF placed = <<>> THEN <<i>>
    ELSE IF keys[Head(placed)] <= keys[i]
         THEN <<Head(placed)>> \o InsertAsc(Tail(placed), i, keys)
         ELSE <<i>> \o placed

RECURSIVE OrderAscUpTo(_, _)
OrderAscUpTo(keys, n) ==
    IF n = 0 THEN <<>> ELSE InsertAsc(OrderAscUpTo(keys, n - 1), n, keys)

SortedAscBy(s, keys) == [k \in DOMAIN s |-> s[OrderAscUpTo(keys, Len(s))[k]]]

\* s sorted by descending keys[i] (the key of s[i]), stable
SortedDescBy(s, keys) == [k \in DOMAIN s |-> s[OrderDescUpTo(keys, Len(s))[k]]]

\* s[:n]
Take(s, n) == SubSeq(s, 1, Min(n, Len(s)))

----------------------------------------------------------------------------
(* engine/focus_engine.py: the ranking *)

\* RankedTask.score and DecisionResponse.confidence: Field(ge=0.0, le=1.0)
InUnitRange(x) == 0 <= x /\ x <= 10

\* max(0.0, x) alone
ClampBelow(x) == IF x < 0 THEN 0 ELSE x

\* min(1.0, max(0.0, x))
Clamp(x) == IF x < 0 THEN 0 ELSE IF x > 10 THEN 10 ELSE x

DecisionResponse(ranked_tasks, reasoning, confidence, strategy, fallback) ==
    [kind |-> "response", ranked_tasks |-> ranked_tasks, reasoning |-> reasoning,
     confidence |-> confidence, strategy |-> strategy, fallback |-> fallback]

\* pydantic's ValidationError, raised by a model's constructor
ValidationError == [kind |-> "ValidationError"]

Reasoning(text) == [text |-> text, mentions_blocked |-> FALSE, blocked_count |-> 0]

\* an empty response that never mentions the blocked tasks
EmptyResponseSilent(blocked_tasks) ==
    DecisionResponse(<<>>,
        [text |-> "No actionable tasks match current context",
         mentions_blocked |-> FALSE, blocked_count |-> 0],
        0, "contextual_filter", FALSE)

\* the response of get_focus_tasks when no actionable task remains
EmptyResponse(blocked_tasks) ==
    DecisionResponse(<<>>,
        [text |-> "No actionable tasks match current context",
         mentions_blocked |-> blocked_tasks # <<>>,
         blocked_count |-> Len(blocked_tasks)],
        0, "contextual_filter", FALSE)

\* the ranked tasks of _heuristic_fallback, before RankedTask validates them
FallbackRanking(tasks, options) ==
    LET sorted_tasks == SortedDescBy(tasks, [i \in DOMAIN tasks |-> tasks[i].priority])
        top == Take(sorted_tasks, options.max_tasks)
    IN  [i \in DOMAIN top |->
            [task |-> top[i], score |-> 5 + top[i].priority,
             reasoning |-> "Priority-based heuristic"]]

\* a fallback that sorts the priorities ascending
_heuristic_fallback_ascending(tasks, options) ==
    LET sorted_tasks == SortedAscBy(tasks, [i \in DOMAIN tasks |-> tasks[i].priority])
        top == Take(sorted_tasks, options.max_tasks)
        ranked == [i \in DOMAIN top |->
                     [task |-> top[i], score |-> 5 + top[i].priority,
                      reasoning |-> "Priority-based heuristic"]]
    IN  IF \E i \in DOMAIN ranked : ~InUnitRange(ranked[i].score)
        THEN ValidationError
        ELSE DecisionResponse(ranked,
                 Reasoning("Used heuristic fallback due to AI service unavailability"),
                 6, "heuristic_fallback", TRUE)

\* a fallback whose response does not say that it is one
_heuristic_fallback_unflagged(tasks, options) ==
    LET ranked == FallbackRanking(tasks, options)
    IN  IF \E i \in DOMAIN ranked : ~InUnitRange(ranked[i].score)
        THEN ValidationError
        ELSE DecisionResponse(ranked,
                 Reasoning("Used heuristic fallback due to AI service unavailability"),
                 6, "heuristic_fallback", FALSE)

\* _heuristic_fallback: RankedTask(...) raises when a score is outside [0, 1]
_heuristic_fallback(tasks, options) ==
    LET ranked == FallbackRanking(tasks, options)
    IN  IF \E i \in DOMAIN ranked : ~InUnitRange(ranked[i].score)
        THEN ValidationError
        ELSE DecisionResponse(ranked,
                 Reasoning("Used heuristic fallback due to AI service unavailability"),
                 6, "heuristic_fallback", TRUE)

\* the oracle's answer to a ranking request: the call raises (ok = FALSE), or
\* it returns a text that json.loads rejects (json = FALSE) or decodes to an
\* object with or without ranked_tasks and confidence; an item holds an
\* index and a score
top_items == 10

\* the for loop of _parse_ranking_response over data["ranked_tasks"][:10]
RECURSIVE ParseItems(_, _, _)
ParseItems(items, i, tasks) ==
    IF i > Len(items) THEN <<>>
    ELSE IF 0 <= items[i].index /\ items[i].index < Len(tasks)
         THEN <<[task |-> tasks[items[i].index + 1], score |-> Clamp(items[i].score),
                 reasoning |-> "AI"]>> \o ParseItems(items, i + 1, tasks)
         ELSE ParseItems(items, i + 1, tasks)

\* _parse_ranking_response reading every item of the ranking
_parse_ranking_response_whole(answer, tasks) ==
    LET ranked == ParseItems(IF answer.has_ranked THEN answer.items ELSE <<>>, 1, tasks)
    IN  DecisionResponse(ranked, Reasoning("AI-ranked tasks"),
            Clamp(IF answer.has_confidence THEN answer.confidence ELSE 7),
            "gemini_ranking", FALSE)

\* _parse_ranking_response once json.loads has succeeded
_parse_ranking_response(answer, tasks) ==
    LET items == Take(IF answer.has_ranked THEN answer.items ELSE <<>>, top_items)
        ranked == ParseItems(items, 1, tasks)
        sorted_ranked == SortedDescBy(ranked, [i \in DOMAIN ranked |-> ranked[i].score])
    IN  DecisionResponse(sorted_ranked, Reasoning("AI-ranked tasks"),
            Clamp(IF answer.has_confidence THEN answer.confidence ELSE 7),
            "gemini_ranking", FALSE)

----------------------------------------------------------------------------
(* tools/handlers.py: daily_focus *)

\* sum(1 for t in tasks if t.raw_task.is_blocked)
BlockedCount(tasks) == Len(SelectSeq(tasks, is_blocked))

\* daily_focus after get_focus_tasks: the summary of the returned decision;
\* an error of get_focus_tasks is not caught and ends daily_focus
daily_focus_result(tasks, decision) ==
    IF decision.kind = "response"
    THEN [kind |-> "response",
          summary |-> [total_tasks |-> Len(decision.ranked_tasks),
                       blocked_tasks_excluded |-> BlockedCount(tasks),
                       strategy |-> decision.strategy,
                       confidence |-> decision.confidence],
          reasoning |-> decision.reasoning,
          task_ids |-> [i \in DOMAIN decision.ranked_tasks |->
                           decision.ranked_tasks[i].task.id]]
    ELSE decision

FeInit ==
    /\ fe_pc = "idle"
    /\ fe_tasks = <<>>
    /\ fe_options = [energy |-> "medium", mode |-> "deep", max_tasks |-> 10,
                     only_projects |-> {}, exclude_projects |-> {}]
    /\ fe_actionable = <<>>
    /\ fe_blocked = <<>>
    /\ fe_result = NoResult
    /\ fe_stages = <<>>
    /\ fe_answer = NoResult
    /\ df_result = NoResult

\* daily_focus(options) with `tasks` fetched from the task source, up to the
\* oracle call of get_focus_tasks: the filters and the actionability split;
\* with no actionable task get_focus_tasks returns at once and daily_focus
\* builds its summary
DailyFocusOn(tasks, options) ==
    /\ fe_tasks' = tasks
    /\ fe_answer' = NoResult
    /\ fe_options' = options
    /\ LET split == _apply_filters(tasks, options)
       IN  /\ fe_actionable' = split.actionable
           /\ fe_blocked' = split.blocked
           /\ IF split.actionable = <<>>
              THEN /\ fe_pc' = "returned"
                   /\ fe_result' = EmptyResponse(split.blocked)
                   /\ fe_stages' = <<"filter", "split", "result">>
                   /\ df_result' = daily_focus_result(tasks, EmptyResponse(split.blocked))
              ELSE /\ fe_pc' = "oracle"
                   /\ fe_stages' = <<"filter", "split", "oracle">>
                   /\ UNCHANGED <<fe_result, df_result>>

\* get_focus_tasks ends with `decision`, a response or an error, after the
\* stages `stages`; daily_focus goes on to its summary
FocusEnds(decision, stages) ==
    /\ fe_result' = decision
    /\ fe_pc' = IF decision.kind = "response" THEN "returned" ELSE "raised"
    /\ fe_stages' = fe_stages \o stages
                        \o (IF decision.kind = "response" THEN <<"result">> ELSE <<>>)
    /\ df_result' = daily_focus_result(fe_tasks, decision)
    /\ UNCHANGED <<fe_tasks, fe_options, fe_actionable, fe_blocked>>

\* the oracle call raises: the except branch runs the heuristic fallback
OracleRaises ==
    /\ fe_pc = "oracle"
    /\ fe_answer' = [kind |-> "raised"]
    /\ FocusEnds(_heuristic_fallback(fe_actionable, fe_options),
                 <<"oracle_raised", "fallback">>)

\* the oracle returns a text that json.loads rejects: the same except branch
OracleAnswersMalformed ==
    /\ fe_pc = "oracle"
    /\ fe_answer' = [kind |-> "not_json"]
    /\ FocusEnds(_heuristic_fallback(fe_actionable, fe_options),
                 <<"parse_failed", "fallback">>)

----------------------------------------------------------------------------
(* Inputs of daily_focus *)

\* longest task list of a focus request
MaxFocusTasks == 2
\* most items in the oracle's ranking
MaxItems == 2

Priorities == {3, 5, 6}

ProjectIds == {1, 2}

FocusMetadata == {NoMeta, [energy |-> "high", mode |-> "deep"]}

\* a task's filter attributes: a plain task (not done, project 1, no
\* metadata), or one that differs from it in one attribute; get_focus_tasks
\* filters completed tasks itself, whatever its caller fetched
FocusTaskKinds ==
    {k \in [done : BOOLEAN, project_id : ProjectIds, metadata : FocusMetadata] :
        Cardinality({a \in {"done", "project_id", "metadata"} :
            \/ a = "done" /\ k.done
            \/ a = "project_id" /\ k.project_id # 1
            \/ a = "metadata" /\ k.metadata # NoMeta}) <= 1}

FocusPeers == {<<>>, <<[id |-> 101, done |-> FALSE]>>}

\* the task list with filter attributes k, priorities p and "blocked" peers
\* b, position by position: ids are distinct and ascending
FocusTaskList(k, p, b) ==
    [i \in DOMAIN k |->
        [id |-> i, done |-> k[i].done, priority |-> p[i], project_id |-> k[i].project_id,
         metadata |-> k[i].metadata, blocked |-> b[i], blocking |-> <<>>]]

ProjectFilters ==
    {[only_projects |-> {}, exclude_projects |-> {}],
     [only_projects |-> {1}, exclude_projects |-> {}],
     [only_projects |-> {}, exclude_projects |-> {1}]}

FocusOptions ==
    {[energy |-> e, mode |-> "deep", max_tasks |-> m,
      only_projects |-> f.only_projects, exclude_projects |-> f.exclude_projects] :
     e \in {"medium", "high"}, m \in {1, 2}, f \in ProjectFilters}

\* an item of the oracle's ranking: a 0-based index into the actionable
\* tasks (out of range when it is not below their number) and a score in
\* tenths, inside or above [0, 1]
RankingItems == [index : {0, 1}, score : {4, 12}]

RankingAnswers ==
    [has_ranked : {TRUE}, items : SeqsUpTo(RankingItems, MaxItems),
     has_confidence : {TRUE}, confidence : {9}]
    \cup [has_ranked : {FALSE}, items : {<<>>}, has_confidence : {FALSE}, confidence : {0}]

----------------------------------------------------------------------------
(* daily_focus as a state machine, continued *)

DailyFocus ==
    /\ fe_pc = "idle"
    /\ \E n \in 0..MaxFocusTasks :
          \E k \in [1..n -> FocusTaskKinds], p \in [1..n -> Priorities],
             b \in [1..n -> FocusPeers], options \in FocusOptions :
              DailyFocusOn(FocusTaskList(k, p, b), options)

\* the oracle returns a JSON object, which is parsed into the response
OracleAnswersRanking ==
    /\ fe_pc = "oracle"
    /\ \E answer \in RankingAnswers :
          /\ fe_answer' = [kind |-> "object", has_ranked |-> answer.has_ranked,
                           has_confidence |-> answer.has_confidence]
          /\ FocusEnds(_parse_ranking_response(answer, fe_actionable), <<"parsed">>)

FeNext ==
    \/ DailyFocus /\ UNCHANGED <<depVars, gfVars, swVars, ordVars, ubVars, chVars, prVars, tlVars, enVars, cxVars, afVars>>
    \/ OracleRaises /\ UNCHANGED <<depVars, gfVars, swVars, ordVars, ubVars, chVars, prVars, tlVars, enVars, cxVars, afVars>>
    \/ OracleAnswersMalformed /\ UNCHANGED <<depVars, gfVars, swVars, ordVars, ubVars, chVars, prVars, tlVars, enVars, cxVars, afVars>>
    \/ OracleAnswersRanking /\ UNCHANGED <<depVars, gfVars, swVars, ordVars, ubVars, chVars, prVars, tlVars, enVars, cxVars, afVars>>

----------------------------------------------------------------------------
(* context.py: calculate_switch_cost *)

\* from_project = None
NoContext == [kind |-> "None"]

\* 1.0, in two-hundredths
UnitCost == 200

Abs(x) == IF x < 0 THEN -x ELSE x

\* the terms with the related-project discount taken on their sum
SwitchTermsAllHalved(from_project, to_project) ==
    LET weight_cost == Abs(from_project.context_weight - to_project.context_weight) * 20
        base_cost == IF from_project.domain # "" /\ from_project.domain = to_project.domain
                     THEN (weight_cost * 7) \div 10 ELSE weight_cost
        work_type_cost == IF from_project.work_type # to_project.work_type THEN 30 ELSE 0
        energy_cost ==
            IF from_project.typical_energy = to_project.typical_energy THEN 0
            ELSE IF "social" \in {from_project.typical_energy, to_project.typical_energy}
                 THEN 40
                 ELSE Abs(EnergyIndex(from_project.typical_energy)
                          - EnergyIndex(to_project.typical_energy)) * 20
        tool_cost == IF /\ from_project.requires_tools # {}
                        /\ to_project.requires_tools # {}
                        /\ from_project.requires_tools \cap to_project.requires_tools = {}
                     THEN 20 ELSE 0
        total == base_cost + work_type_cost + energy_cost + tool_cost
    IN  IF to_project.project_id \in from_project.related_projects
        THEN total \div 2 ELSE total

\* base_cost + work_type_cost + energy_cost + tool_cost: the weight
\* difference over 10, halved for a related project, times 0.7 inside one
\* domain; 0.15 for another work type; 0.1 per energy step, 0.2 when
\* energy_order.index raises ValueError for SOCIAL; 0.1 for disjoint tools
SwitchTerms(from_project, to_project) ==
    LET weight_cost == Abs(from_project.context_weight - to_project.context_weight) * 20
        related_cost == IF to_project.project_id \in from_project.related_projects
                        THEN weight_cost \div 2 ELSE weight_cost
        base_cost == IF from_project.domain # "" /\ from_project.domain = to_project.domain
                     THEN (related_cost * 7) \div 10 ELSE related_cost
        work_type_cost == IF from_project.work_type # to_project.work_type THEN 30 ELSE 0
        energy_cost ==
            IF from_project.typical_energy = to_project.typical_energy THEN 0
            ELSE IF "social" \in {from_project.typical_energy, to_project.typical_energy}
                 THEN 40
                 ELSE Abs(EnergyIndex(from_project.typical_energy)
                          - EnergyIndex(to_project.typical_energy)) * 20
        tool_cost == IF /\ from_project.requires_tools # {}
                        /\ to_project.requires_tools # {}
                        /\ from_project.requires_tools \cap to_project.requires_tools = {}
                     THEN 20 ELSE 0
    IN  base_cost + work_type_cost + energy_cost + tool_cost

\* without the cap at 1.0
calculate_switch_cost_uncapped(from_project, to_project) ==
    IF from_project = NoContext THEN to_project.context_weight * 10
    ELSE IF from_project.project_id = to_project.project_id THEN 0
    ELSE SwitchTerms(from_project, to_project)

\* without the same-project return
calculate_switch_cost_always_summed(from_project, to_project) ==
    IF from_project = NoContext THEN to_project.context_weight * 10
    ELSE Min(UnitCost, SwitchTerms(from_project, to_project))

calculate_switch_cost(from_project, to_project) ==
    IF from_project = NoContext THEN to_project.context_weight * 10
    ELSE IF from_project.project_id = to_project.project_id THEN 0
    ELSE Min(UnitCost, SwitchTerms(from_project, to_project))

ProjectContext(project_id, work_type, domain, typical_energy, context_weight, requires_tools, related_projects) ==
    [project_id |-> project_id, work_type |-> work_type, domain |-> domain,
     typical_energy |-> typical_energy, context_weight |-> context_weight,
     requires_tools |-> requires_tools, related_projects |-> related_projects]

\* context_weight: Field(ge=1, le=10); the lightest, the default, the heaviest
Weights == {1, 5, 10}

\* the contexts a switch starts from: project 1, related to project 2 or not
FromContexts ==
    {ProjectContext(1, wt, d, e, w, t, r) :
        wt \in {"coding", "admin"}, d \in {"", "infra", "docs"}, e \in EnergyLevel,
        w \in Weights, t \in {{}, {"vscode"}, {"browser"}}, r \in {{}, {2}}}

\* the contexts a switch goes to: project 1 again or project 2
ToContexts ==
    {ProjectContext(p, "coding", d, e, w, t, {}) :
        p \in {1, 2}, d \in {"", "infra"}, e \in EnergyLevel,
        w \in Weights, t \in {{}, {"vscode"}}}

SwInit ==
    /\ sw_pc = "idle"
    /\ sw_from = NoContext
    /\ sw_to = NoContext
    /\ sw_cost = 0

\* one call of calculate_switch_cost(from_project, to_project)
CalculateSwitchCost ==
    /\ sw_pc = "idle"
    /\ \E from_project \in FromContexts \cup {NoContext}, to_project \in ToContexts :
          /\ sw_from' = from_project
          /\ sw_to' = to_project
          /\ sw_cost' = calculate_switch_cost(from_project, to_project)
    /\ sw_pc' = "returned"

\* the caller takes the cost; the manager is ready again
SwNextCall ==
    /\ sw_pc = "returned"
    /\ sw_pc' = "idle"
    /\ sw_from' = NoContext
    /\ sw_to' = NoContext
    /\ sw_cost' = 0

SwNext ==
    \/ CalculateSwitchCost /\ UNCHANGED <<depVars, gfVars, feVars, ordVars, ubVars, chVars, prVars, tlVars, enVars, cxVars, afVars>>
    \/ SwNextCall /\ UNCHANGED <<depVars, gfVars, feVars, ordVars, ubVars, chVars, prVars, tlVars, enVars, cxVars, afVars>>

----------------------------------------------------------------------------
(* context.py: group_tasks_by_project and optimize_task_order.              *)
(* A dict is a sequence of entries [pid, tasks] in insertion order, the     *)
(* order in which Python iterates over it.                                  *)

\* current_project_id = None, best_project_id = None
NoProject == -1

\* project_map.get(pid): the last context of the list with that id, or None
project_map_get(projects, pid) ==
    LET found == {i \in DOMAIN projects : projects[i].project_id = pid}
    IN  IF found = {} THEN NoContext
        ELSE projects[CHOOSE i \in found : \A j \in found : j <= i]

\* grouped[pid].append(task)
GroupAppend(grouped, pid, task) ==
    IF \E i \in DOMAIN grouped : grouped[i].pid = pid
    THEN [i \in DOMAIN grouped |->
             IF grouped[i].pid = pid
             THEN [grouped[i] EXCEPT !.tasks = Append(@, task)]
             ELSE grouped[i]]
    ELSE Append(grouped, [pid |-> pid, tasks |-> <<task>>])

\* grouped.pop(pid)
GroupPop(grouped, pid) == SelectSeq(grouped, LAMBDA g : g.pid # pid)

GroupTasks(grouped, pid) ==
    grouped[CHOOSE i \in DOMAIN grouped : grouped[i].pid = pid].tasks

\* a grouping that throws every task into bucket 0
group_tasks_by_project_one_bucket(tasks, projects) ==
    IF tasks = <<>> THEN <<>> ELSE <<[pid |-> 0, tasks |-> tasks]>>

\* a grouping that walks the tasks from the last to the first
RECURSIVE group_tasks_by_project_backwards(_, _)
group_tasks_by_project_backwards(tasks, projects) ==
    IF tasks = <<>> THEN <<>>
    ELSE LET task == Head(tasks)
             pid == IF project_map_get(projects, task.project_id) # NoContext
                    THEN task.project_id ELSE 0
         IN  GroupAppend(group_tasks_by_project_backwards(Tail(tasks), projects), pid, task)

\* the for loop of group_tasks_by_project, from the first task to the last:
\* a task whose project is not in the list goes to bucket 0
RECURSIVE GroupLoop(_, _, _)
GroupLoop(tasks, n, projects) ==
    IF n = 0 THEN <<>>
    ELSE LET task == tasks[n]
             pid == IF project_map_get(projects, task.project_id) # NoContext
                    THEN task.project_id ELSE 0
         IN  GroupAppend(GroupLoop(tasks, n - 1, projects), pid, task)

group_tasks_by_project(tasks, projects) == GroupLoop(tasks, Len(tasks), projects)

\* the for loop with "cost <= min_cost": the last of the cheapest groups
RECURSIVE FindBestLastTie(_, _, _, _)
FindBestLastTie(grouped, n, last_project, projects) ==
    IF n = 0 THEN [min_cost |-> 0, best_project_id |-> NoProject]
    ELSE LET before == FindBestLastTie(grouped, n - 1, last_project, projects)
             pid == grouped[n].pid
             ctx == project_map_get(projects, pid)
             cost == IF ctx # NoContext
                     THEN calculate_switch_cost(last_project, ctx)
                     ELSE 100
         IN  IF before.best_project_id = NoProject \/ cost <= before.min_cost
             THEN [min_cost |-> cost, best_project_id |-> pid]
             ELSE before

\* the for loop over grouped that looks for the lowest switch cost: the
\* pair [min_cost, best_project_id] after the first n groups; min_cost is
\* infinite as long as best_project_id is None
RECURSIVE FindBest(_, _, _, _)
FindBest(grouped, n, last_project, projects) ==
    IF n = 0 THEN [min_cost |-> 0, best_project_id |-> NoProject]
    ELSE LET before == FindBest(grouped, n - 1, last_project, projects)
             pid == grouped[n].pid
             ctx == project_map_get(projects, pid)
             cost == IF ctx # NoContext
                     THEN calculate_switch_cost(last_project, ctx)
                     ELSE 100  \* an unknown project: 0.5
         IN  IF before.best_project_id = NoProject \/ cost < before.min_cost
             THEN [min_cost |-> cost, best_project_id |-> pid]
             ELSE before

\* a loop that puts each group it picks in front of the groups picked before
RECURSIVE EmitGroupsInFront(_, _, _, _)
EmitGroupsInFront(grouped, last_project, reordered, projects) ==
    IF grouped = <<>> THEN reordered
    ELSE LET best == FindBest(grouped, Len(grouped), last_project, projects).best_project_id
         IN  EmitGroupsInFront(GroupPop(grouped, best),
                               project_map_get(projects, best),
                               GroupTasks(grouped, best) \o reordered,
                               projects)

\* the while loop of optimize_task_order
RECURSIVE EmitGroups(_, _, _, _)
EmitGroups(grouped, last_project, reordered, projects) ==
    IF grouped = <<>> THEN reordered
    ELSE LET best == FindBest(grouped, Len(grouped), last_project, projects).best_project_id
         IN  EmitGroups(GroupPop(grouped, best),
                        project_map_get(projects, best),
                        reordered \o GroupTasks(grouped, best),
                        projects)

optimize_task_order(tasks, projects, current_project_id) ==
    IF Len(tasks) <= 1 THEN tasks
    ELSE LET grouped == group_tasks_by_project(tasks, projects)
             given == current_project_id # NoProject /\ current_project_id # 0
             first == given /\ \E i \in DOMAIN grouped : grouped[i].pid = current_project_id
             last_project == IF given THEN project_map_get(projects, current_project_id)
                             ELSE NoContext
         IN  IF first
             THEN EmitGroups(GroupPop(grouped, current_project_id), last_project,
                             GroupTasks(grouped, current_project_id), projects)
             ELSE EmitGroups(grouped, last_project, <<>>, projects)

\* longest task list given to optimize_task_order
MaxOrderTasks == 4

OrderProjectIds == {1, 2, 3}

\* the project lists: each project absent, light or heavy
OrderProjects ==
    {SelectSeq([p \in 1..3 |-> ProjectContext(p, "general", "", "medium", w[p], {}, {})],
               LAMBDA c : c.context_weight > 0) :
        w \in [OrderProjectIds -> {0, 3, 8}]}

OrdInit ==
    /\ ord_pc = "idle"
    /\ ord_tasks = <<>>
    /\ ord_projects = <<>>
    /\ ord_current = NoProject
    /\ ord_result = <<>>

\* one call of optimize_task_order(tasks, projects, current_project_id)
OptimizeTaskOrder ==
    /\ ord_pc = "idle"
    /\ \E n \in 0..MaxOrderTasks :
          \E pids \in [1..n -> OrderProjectIds], projects \in OrderProjects,
             current_project_id \in OrderProjectIds \cup {NoProject} :
              LET tasks == [i \in 1..n |-> [id |-> i, project_id |-> pids[i]]]
              IN  /\ ord_tasks' = tasks
                  /\ ord_projects' = projects
                  /\ ord_current' = current_project_id
                  /\ ord_result' = optimize_task_order(tasks, projects, current_project_id)
    /\ ord_pc' = "returned"

\* the caller takes the list; the manager is ready again
OrdNextCall ==
    /\ ord_pc = "returned"
    /\ ord_pc' = "idle"
    /\ ord_tasks' = <<>>
    /\ ord_projects' = <<>>
    /\ ord_current' = NoProject
    /\ ord_result' = <<>>

OrdNext ==
    \/ OptimizeTaskOrder /\ UNCHANGED <<depVars, gfVars, feVars, swVars, ubVars, chVars, prVars, tlVars, enVars, cxVars, afVars>>
    \/ OrdNextCall /\ UNCHANGED <<depVars, gfVars, feVars, swVars, ubVars, chVars, prVars, tlVars, enVars, cxVars, afVars>>

----------------------------------------------------------------------------
(* dependencies/checker.py: get_unblocking_tasks *)

\* a variant that sorts by ascending count
get_unblocking_tasks_ascending(tasks) ==
    LET unblocking == SelectSeq(tasks, LAMBDA t : ~t.done /\ Len(blocking_ids(t)) > 0)
    IN  SortedAscBy(unblocking, [i \in DOMAIN unblocking |-> Len(blocking_ids(unblocking[i]))])

\* the tasks that are not done and block others, sorted by the number of
\* tasks they block: list.sort(key=..., reverse=True)
get_unblocking_tasks(tasks) ==
    LET unblocking == SelectSeq(tasks, LAMBDA t : ~t.done /\ Len(blocking_ids(t)) > 0)
    IN  SortedDescBy(unblocking, [i \in DOMAIN unblocking |-> Len(blocking_ids(unblocking[i]))])

\* most "blocking" peer references on one task
MaxBlocking == 3

\* the task at position i that blocks `count` other tasks
UnblockTask(i, done, count) ==
    [id |-> i, done |-> done, priority |-> 0, project_id |-> 1, metadata |-> NoMeta,
     blocked |-> <<>>, blocking |-> [k \in 1..count |-> [id |-> 200 + k, done |-> FALSE]]]

UbInit ==
    /\ ub_pc = "idle"
    /\ ub_tasks = <<>>
    /\ ub_result = <<>>

\* one call of DependencyChecker.get_unblocking_tasks(tasks)
GetUnblockingTasks ==
    /\ ub_pc = "idle"
    /\ \E n \in 0..MaxDepTasks :
          \E d \in [1..n -> BOOLEAN], c \in [1..n -> 0..MaxBlocking] :
              LET tasks == [i \in 1..n |-> UnblockTask(i, d[i], c[i])]
              IN  /\ ub_tasks' = tasks
                  /\ ub_result' = get_unblocking_tasks(tasks)
    /\ ub_pc' = "returned"

\* the caller takes the list; the checker is stateless and ready again
UbNextCall ==
    /\ ub_pc = "returned"
    /\ ub_pc' = "idle"
    /\ ub_tasks' = <<>>
    /\ ub_result' = <<>>

UbNext ==
    \/ GetUnblockingTasks /\ UNCHANGED <<depVars, gfVars, feVars, swVars, ordVars, chVars, prVars, tlVars, enVars, cxVars, afVars>>
    \/ UbNextCall /\ UNCHANGED <<depVars, gfVars, feVars, swVars, ordVars, chVars, prVars, tlVars, enVars, cxVars, afVars>>

----------------------------------------------------------------------------
(* dependencies/checker.py: get_blocking_info, _analyze_chain,              *)
(* _find_chain_root, _build_chain_order and calculate_chain_progress.       *)
(* The tasks of a list have their positions as ids, so task_map.get(id) is  *)
(* tasks[id] for a position of the list and None for any other id.          *)

Digit(d) ==
    CASE d = 0 -> "0" [] d = 1 -> "1" [] d = 2 -> "2" [] d = 3 -> "3" [] d = 4 -> "4"
      [] d = 5 -> "5" [] d = 6 -> "6" [] d = 7 -> "7" [] d = 8 -> "8" [] d = 9 -> "9"

\* str(n) of a natural number, digit by digit
RECURSIVE DecimalText(_)
DecimalText(n) ==
    IF n < 10 THEN <<Digit(n)>> ELSE DecimalText(n \div 10) \o <<Digit(n % 10)>>

\* round((completed / total) * 100, 1), in tenths of a percent; a value
\* halfway between two tenths (no chain shorter than 16 has one) goes to
\* the even tenth
progress_percent(completed, total) ==
    LET q == (1000 * completed) \div total
        r == (1000 * completed) % total
    IN  IF 2 * r < total THEN q
        ELSE IF 2 * r > total THEN q + 1
        ELSE IF q % 2 = 0 THEN q ELSE q + 1

\* f"{chain.completed_tasks}/{chain.total_tasks} ({chain.progress_percent}%)"
ProgressText(chain) ==
    DecimalText(chain.completed_tasks) \o <<"/">> \o DecimalText(chain.total_tasks)
    \o <<" ", "(">> \o DecimalText(chain.progress_percent \div 10) \o <<".">>
    \o DecimalText(chain.progress_percent % 10) \o <<"%", ")">>

\* the guard of both walks: `if task.id in visited` / `if start_id in visited`
\* (as it would be without the visited sets)
InVisitedNever(id, visited) == FALSE

InVisited(id, visited) == id \in visited

\* task_map.get(id) is not None
InTaskMap(id) == id \in DOMAIN ch_tasks

\* the task a frame of _find_chain_root works on
FrameTask(id) == IF id = ch_task.id THEN ch_task ELSE ch_tasks[id]

NoChain == [kind |-> "None"]

\* a chain that counts every member as completed
DependencyChainAllDone(task, root_id, chain_tasks) ==
    IF Len(chain_tasks) < 2 THEN NoChain
    ELSE [kind |-> "DependencyChain", root_task_id |-> root_id, chain_tasks |-> chain_tasks,
          total_tasks |-> Len(chain_tasks), completed_tasks |-> Len(chain_tasks),
          progress_percent |-> 1000, next_actionable_ids |-> <<>>]

\* an analysis that takes a single task for a chain
DependencyChainOfOne(task, root_id, chain_tasks) ==
    LET member(tid) == IF InTaskMap(tid) THEN ch_tasks[tid] ELSE task
        completed == Len(SelectSeq(chain_tasks, LAMBDA tid : member(tid).done))
    IN  [kind |-> "DependencyChain", root_task_id |-> root_id,
         chain_tasks |-> chain_tasks, total_tasks |-> Len(chain_tasks),
         completed_tasks |-> completed,
         progress_percent |-> progress_percent(completed, Len(chain_tasks)),
         next_actionable_ids |-> <<>>]

\* _analyze_chain once the root and the chain order are known
DependencyChain(task, root_id, chain_tasks) ==
    IF Len(chain_tasks) < 2 THEN NoChain
    ELSE LET member(tid) == IF InTaskMap(tid) THEN ch_tasks[tid] ELSE task
             completed == Len(SelectSeq(chain_tasks, LAMBDA tid : member(tid).done))
             next_actionable ==
                 SelectSeq(chain_tasks, LAMBDA tid :
                     /\ InTaskMap(tid)
                     /\ ~ch_tasks[tid].done
                     /\ ~is_blocked(ch_tasks[tid]))
         IN  [kind |-> "DependencyChain", root_task_id |-> root_id,
              chain_tasks |-> chain_tasks, total_tasks |-> Len(chain_tasks),
              completed_tasks |-> completed,
              progress_percent |-> progress_percent(completed, Len(chain_tasks)),
              next_actionable_ids |-> next_actionable]

BlockingInfo(task, chain) ==
    [kind |-> "BlockingInfo", task_id |-> task.id, is_blocked |-> is_blocked(task),
     blocked_by_incomplete |->
         blocked_by_ids([task EXCEPT !.blocked = SelectSeq(@, LAMBDA b : ~b.done)]),
     blocked_by_complete |->
         blocked_by_ids([task EXCEPT !.blocked = SelectSeq(@, LAMBDA b : b.done)]),
     blocks_others |-> blocking_ids(task), chain_context |-> chain]

ChInit ==
    /\ ch_pc = "idle"
    /\ ch_op = "none"
    /\ ch_tasks = <<>>
    /\ ch_task = NoResult
    /\ ch_queue = <<>>
    /\ ch_stack = <<>>
    /\ ch_visited = {}
    /\ ch_up = <<>>
    /\ ch_down = <<>>
    /\ ch_root = 0
    /\ ch_chain = <<>>
    /\ ch_result = NoResult

\* _analyze_chain(task, task_map) starts: _find_chain_root(task, task_map,
\* visited=set()) is entered, adds task.id and reaches its for loop (an
\* empty blocked_by list returns task.id as an exhausted loop does)
AnalyzeStarts(task, queue) ==
    /\ ch_task' = task
    /\ ch_queue' = queue
    /\ ch_pc' = "root"
    /\ ch_stack' = <<[id |-> task.id, next |-> 1]>>
    /\ ch_visited' = {task.id}
    /\ ch_up' = <<task.id>>
    /\ ch_down' = <<>>
    /\ ch_root' = 0
    /\ ch_chain' = <<>>

\* get_blocking_info(task, all_tasks)
GetBlockingInfoOn(task, all_tasks) ==
    /\ ch_op' = "get_blocking_info"
    /\ ch_tasks' = all_tasks
    /\ ch_result' = NoResult
    /\ AnalyzeStarts(task, <<>>)

\* calculate_chain_progress(tasks): the for loop starts with the first task,
\* or ends at once over an empty list
CalculateChainProgressOn(tasks) ==
    /\ ch_op' = "calculate_chain_progress"
    /\ ch_tasks' = tasks
    /\ ch_result' = [kind |-> "progress_map", entries |-> <<>>]
    /\ IF tasks = <<>>
       THEN /\ ch_pc' = "returned"
            /\ UNCHANGED <<ch_task, ch_queue, ch_stack, ch_visited, ch_up, ch_down,
                           ch_root, ch_chain>>
       ELSE AnalyzeStarts(Head(tasks), Tail(tasks))

\* one step of _find_chain_root in the innermost frame: the for loop takes
\* the next blocker; a blocker that is not in task_map is skipped, a call
\* on a visited blocker returns None and the loop goes on, a call on any
\* other blocker adds it to visited and reaches its own loop; an exhausted
\* loop returns the frame's task id, which every caller returns in turn,
\* and _build_chain_order(root_id, task_map, visited=set()) is entered
FindChainRootStep ==
    /\ ch_pc = "root"
    /\ LET top == ch_stack[Len(ch_stack)]
           blocked_by == blocked_by_ids(FrameTask(top.id))
       IN  IF top.next > Len(blocked_by)
           THEN /\ ch_root' = top.id
                /\ ch_pc' = "build"
                /\ ch_visited' = {top.id}
                /\ ch_down' = <<top.id>>
                /\ ch_chain' = <<top.id>>
                /\ ch_stack' = IF InTaskMap(top.id)
                               THEN <<[id |-> top.id, next |-> 1]>> ELSE <<>>
                /\ UNCHANGED ch_up
           ELSE LET blocker == blocked_by[top.next]
                IN  IF ~InTaskMap(blocker) \/ InVisited(blocker, ch_visited)
                    THEN /\ ch_stack' = [ch_stack EXCEPT ![Len(ch_stack)].next = @ + 1]
                         /\ UNCHANGED <<ch_visited, ch_up, ch_pc, ch_root, ch_down,
                                        ch_chain>>
                    ELSE /\ ch_stack' = Append(ch_stack, [id |-> blocker, next |-> 1])
                         /\ ch_visited' = ch_visited \cup {blocker}
                         /\ ch_up' = Append(ch_up, blocker)
                         /\ UNCHANGED <<ch_pc, ch_root, ch_down, ch_chain>>
    /\ UNCHANGED <<ch_op, ch_tasks, ch_task, ch_queue, ch_result>>

\* one step of _build_chain_order in the innermost frame: the for loop takes
\* the next blocked id; a call on a visited id returns [], a call on any
\* other id adds it to visited and to the result and, when the id is in
\* task_map, reaches its own loop; an exhausted loop returns to the caller
BuildChainOrderStep ==
    /\ ch_pc = "build"
    /\ IF ch_stack = <<>>
       THEN /\ ch_pc' = "analyze"
            /\ UNCHANGED <<ch_stack, ch_visited, ch_down, ch_chain>>
       ELSE LET top == ch_stack[Len(ch_stack)]
                ids == blocking_ids(ch_tasks[top.id])
                advanced == [ch_stack EXCEPT ![Len(ch_stack)].next = @ + 1]
            IN  /\ UNCHANGED ch_pc
                /\ IF top.next > Len(ids)
                   THEN /\ ch_stack' = SubSeq(ch_stack, 1, Len(ch_stack) - 1)
                        /\ UNCHANGED <<ch_visited, ch_down, ch_chain>>
                   ELSE LET blocked_id == ids[top.next]
                        IN  IF InVisited(blocked_id, ch_visited)
                            THEN /\ ch_stack' = advanced
                                 /\ UNCHANGED <<ch_visited, ch_down, ch_chain>>
                            ELSE /\ ch_visited' = ch_visited \cup {blocked_id}
                                 /\ ch_down' = Append(ch_down, blocked_id)
                                 /\ ch_chain' = Append(ch_chain, blocked_id)
                                 /\ ch_stack' =
                                        IF InTaskMap(blocked_id)
                                        THEN Append(advanced, [id |-> blocked_id, next |-> 1])
                                        ELSE advanced
    /\ UNCHANGED <<ch_op, ch_tasks, ch_task, ch_queue, ch_up, ch_root, ch_result>>

\* the rest of _analyze_chain and what its caller does with the chain:
\* get_blocking_info returns its BlockingInfo; calculate_chain_progress
\* records the progress string of a task with a chain and goes on with the
\* next task, or returns the map after the last
ChainAnalyzed ==
    /\ ch_pc = "analyze"
    /\ LET chain == DependencyChain(ch_task, ch_root, ch_chain)
       IN  IF ch_op = "get_blocking_info"
           THEN /\ ch_result' = BlockingInfo(ch_task, chain)
                /\ ch_pc' = "returned"
                /\ UNCHANGED <<ch_task, ch_queue, ch_stack, ch_visited, ch_up, ch_down,
                               ch_root, ch_chain>>
           ELSE /\ ch_result' =
                       IF chain = NoChain THEN ch_result
                       ELSE [ch_result EXCEPT !.entries =
                                Append(@, [id |-> ch_task.id, text |-> ProgressText(chain),
                                           chain |-> chain])]
                /\ IF ch_queue = <<>>
                   THEN /\ ch_pc' = "returned"
                        /\ UNCHANGED <<ch_task, ch_queue, ch_stack, ch_visited, ch_up,
                                       ch_down, ch_root, ch_chain>>
                   ELSE AnalyzeStarts(Head(ch_queue), Tail(ch_queue))
    /\ UNCHANGED <<ch_op, ch_tasks>>

\* the caller takes the result; the checker is stateless and ready again
ChNextCall ==
    /\ ch_pc = "returned"
    /\ ch_pc' = "idle"
    /\ ch_op' = "none"
    /\ ch_tasks' = <<>>
    /\ ch_task' = NoResult
    /\ ch_queue' = <<>>
    /\ ch_stack' = <<>>
    /\ ch_visited' = {}
    /\ ch_up' = <<>>
    /\ ch_down' = <<>>
    /\ ch_root' = 0
    /\ ch_chain' = <<>>
    /\ ch_result' = NoResult

----------------------------------------------------------------------------
(* Inputs of the chain analysis *)

\* longest linear chain
MaxChainLen == 4
\* most peer references in a task list with arbitrary relations
MaxLinkEntries == 3

\* the ids of the tasks of such a list, and an id no task of the list has
ChainIds == {1, 2, 3}
AbsentId == 9

ChainTask(id, done, blocked, blocking) ==
    [id |-> id, done |-> done, priority |-> 0, project_id |-> 1, metadata |-> NoMeta,
     blocked |-> blocked, blocking |-> blocking]

\* a linear chain: task i blocks task i + 1, recorded on both ends, each
\* reference carrying the done flag of the task it names
LinearChain(d) ==
    [i \in DOMAIN d |->
        ChainTask(i, d[i],
            IF i > 1 THEN <<[id |-> i - 1, done |-> d[i - 1]]>> ELSE <<>>,
            IF i < Len(d) THEN <<[id |-> i + 1, done |-> d[i + 1]]>> ELSE <<>>)]

\* the relation lists with at most k references in all, none twice in one
\* list: cycles, self references, forks and references to an absent task
RECURSIVE LinkGraphs(_)
LinkGraphs(k) ==
    IF k = 0 THEN {[i \in ChainIds |-> [blocked |-> <<>>, blocking |-> <<>>]]}
    ELSE LET G == LinkGraphs(k - 1)
             targets == ChainIds \cup {AbsentId}
         IN  G \cup UNION {
                 {[g EXCEPT ![i].blocked = Append(@, t)] :
                      t \in targets \ Range(g[i].blocked)}
                 \cup {[g EXCEPT ![i].blocking = Append(@, t)] :
                      t \in targets \ Range(g[i].blocking)}
                 : g \in G, i \in ChainIds}

\* the task list of relation lists g; no task is done
LinkedTasks(g) ==
    [i \in 1..Cardinality(ChainIds) |->
        ChainTask(i, FALSE,
            [k \in DOMAIN g[i].blocked |-> [id |-> g[i].blocked[k], done |-> FALSE]],
            [k \in DOMAIN g[i].blocking |-> [id |-> g[i].blocking[k], done |-> FALSE]])]

\* a completed task that get_incomplete_tasks does not return
DetachedTask ==
    ChainTask(7, TRUE, <<[id |-> 1, done |-> FALSE]>>, <<[id |-> 2, done |-> FALSE]>>)

\* the ids of S in ascending order
RECURSIVE Ascending(_)
Ascending(S) ==
    IF S = {} THEN <<>>
    ELSE LET least == CHOOSE x \in S : \A y \in S : x <= y
         IN  <<least>> \o Ascending(S \ {least})

\* the graphs Vikunja keeps: a "blocking" relation of i to j is stored with
\* its inverse, the "blocked" relation of j to i
BlockingEdges == {e \in ChainIds \X ChainIds : e[1] # e[2]}

\* the tasks of the graph with edges E, task 1 done or not; every
\* reference carries the done flag of the task it names
ReciprocalTasks(E, first_done) ==
    LET done(i) == i = 1 /\ first_done
    IN  [i \in 1..Cardinality(ChainIds) |->
            ChainTask(i, done(i),
                [k \in DOMAIN Ascending({j \in ChainIds : <<j, i>> \in E}) |->
                    [id |-> Ascending({j \in ChainIds : <<j, i>> \in E})[k],
                     done |-> done(Ascending({j \in ChainIds : <<j, i>> \in E})[k])]],
                [k \in DOMAIN Ascending({j \in ChainIds : <<i, j>> \in E}) |->
                    [id |-> Ascending({j \in ChainIds : <<i, j>> \in E})[k],
                     done |-> done(Ascending({j \in ChainIds : <<i, j>> \in E})[k])]])]

\* the chain 1 -> 8 -> 2 whose middle task is completed: task 8 is not among
\* the tasks get_incomplete_tasks returns, the two others name it as done
CompletedId == 8

IncompleteTasks ==
    <<ChainTask(1, FALSE, <<>>, <<[id |-> CompletedId, done |-> TRUE]>>),
      ChainTask(2, FALSE, <<[id |-> CompletedId, done |-> TRUE]>>, <<>>)>>

\* the completed task itself, as get_task_by_id returns it
CompletedTask ==
    ChainTask(CompletedId, TRUE, <<[id |-> 1, done |-> FALSE]>>, <<[id |-> 2, done |-> FALSE]>>)

GetBlockingInfo ==
    /\ ch_pc = "idle"
    /\ \/ \E n \in 2..MaxChainLen : \E d \in [1..n -> BOOLEAN], i \in 1..n :
             GetBlockingInfoOn(LinearChain(d)[i], LinearChain(d))
       \/ \E g \in LinkGraphs(MaxLinkEntries) :
             \E task \in Range(LinkedTasks(g)) \cup {DetachedTask} :
                 GetBlockingInfoOn(task, LinkedTasks(g))
       \/ \E E \in SUBSET BlockingEdges, first_done \in BOOLEAN :
             \E task \in Range(ReciprocalTasks(E, first_done)) :
                 GetBlockingInfoOn(task, ReciprocalTasks(E, first_done))
       \/ \E task \in Range(IncompleteTasks) \cup {CompletedTask} :
             GetBlockingInfoOn(task, IncompleteTasks)

CalculateChainProgress ==
    /\ ch_pc = "idle"
    /\ \/ \E n \in 0..MaxChainLen : \E d \in [1..n -> BOOLEAN] :
             CalculateChainProgressOn(LinearChain(d))
       \/ \E g \in LinkGraphs(MaxLinkEntries) : CalculateChainProgressOn(LinkedTasks(g))
       \/ \E E \in SUBSET BlockingEdges, first_done \in BOOLEAN :
             CalculateChainProgressOn(ReciprocalTasks(E, first_done))
       \/ CalculateChainProgressOn(IncompleteTasks)

\* the steps the checker takes by itself once called
ChStep ==
    \/ FindChainRootStep
    \/ BuildChainOrderStep
    \/ ChainAnalyzed

ChNext ==
    \/ GetBlockingInfo /\ UNCHANGED <<depVars, gfVars, feVars, swVars, ordVars, ubVars, prVars, tlVars, enVars, cxVars, afVars>>
    \/ CalculateChainProgress /\ UNCHANGED <<depVars, gfVars, feVars, swVars, ordVars, ubVars, prVars, tlVars, enVars, cxVars, afVars>>
    \/ FindChainRootStep /\ UNCHANGED <<depVars, gfVars, feVars, swVars, ordVars, ubVars, prVars, tlVars, enVars, cxVars, afVars>>
    \/ BuildChainOrderStep /\ UNCHANGED <<depVars, gfVars, feVars, swVars, ordVars, ubVars, prVars, tlVars, enVars, cxVars, afVars>>
    \/ ChainAnalyzed /\ UNCHANGED <<depVars, gfVars, feVars, swVars, ordVars, ubVars, prVars, tlVars, enVars, cxVars, afVars>>
    \/ ChNextCall /\ UNCHANGED <<depVars, gfVars, feVars, swVars, ordVars, ubVars, prVars, tlVars, enVars, cxVars, afVars>>

----------------------------------------------------------------------------
(* engine/focus_engine.py: _parse_ranking_response on rankings longer than  *)
(* the ten items it reads                                                   *)

\* most items in such a ranking
MaxRankingItems == 11
\* most items of it whose index names no candidate
MaxStrayItems == 2
\* most candidate tasks
MaxCandidates == 2

\* the indices the oracle writes: below the range, the first candidate, and
\* the second candidate or, with one candidate, above the range
RankingIndices == {-1, 0, 1}

InCandidateRange(index, tasks) == 0 <= index /\ index < Len(tasks)

\* the i-th candidate task
Candidate(i) ==
    [id |-> i, done |-> FALSE, priority |-> 3, project_id |-> 1, metadata |-> NoMeta,
     blocked |-> <<>>, blocking |-> <<>>]

PrInit ==
    /\ pr_pc = "idle"
    /\ pr_tasks = <<>>
    /\ pr_items = <<>>
    /\ pr_confidence = NoResult
    /\ pr_result = NoResult

\* get_focus_tasks sends the ranking prompt for its candidate tasks
OracleAsked ==
    /\ pr_pc = "idle"
    /\ \E n \in 1..MaxCandidates : pr_tasks' = [i \in 1..n |-> Candidate(i)]
    /\ pr_items' = <<>>
    /\ pr_pc' = "answering"
    /\ UNCHANGED <<pr_confidence, pr_result>>

\* the oracle writes one more item of "ranked_tasks": an index and a score
\* (above 1.0 for the second index)
OracleWritesItem ==
    /\ pr_pc = "answering"
    /\ Len(pr_items) < MaxRankingItems
    /\ \E index \in RankingIndices :
          /\ \/ InCandidateRange(index, pr_tasks)
             \/ Len(SelectSeq(pr_items, LAMBDA it : ~InCandidateRange(it.index, pr_tasks)))
                    < MaxStrayItems
          /\ pr_items' = Append(pr_items,
                 [index |-> index, score |-> IF index = 1 THEN 12 ELSE 4])
    /\ UNCHANGED <<pr_pc, pr_tasks, pr_confidence, pr_result>>

\* the answer is complete and _parse_ranking_response reads it
ParseRankingResponse ==
    /\ pr_pc = "answering"
    /\ pr_confidence' = [has_confidence |-> TRUE, confidence |-> 9]
    /\ pr_result' = _parse_ranking_response(
           [has_ranked |-> TRUE, items |-> pr_items, has_confidence |-> TRUE,
            confidence |-> 9], pr_tasks)
    /\ pr_pc' = "parsed"
    /\ UNCHANGED <<pr_tasks, pr_items>>

\* most items in a ranking whose scores and confidence vary
MaxScoredItems == 2

\* an item with a score below, inside or above [0, 1]
ScoredItems == [index : {0, 1}, score : {-3, 4, 12, 15}]

\* data.get("confidence", 0.7): absent, or below, inside or above [0, 1]
Confidences ==
    {[has_confidence |-> FALSE, confidence |-> 0]}
    \cup [has_confidence : {TRUE}, confidence : {-2, 9, 15}]

\* the oracle answers with a short ranking and _parse_ranking_response
\* reads it
OracleAnswersScored ==
    /\ pr_pc = "idle"
    /\ \E n \in 1..MaxCandidates :
          \E items \in SeqsUpTo(ScoredItems, MaxScoredItems), c \in Confidences :
             LET tasks == [i \in 1..n |-> Candidate(i)]
             IN  /\ pr_tasks' = tasks
                 /\ pr_items' = items
                 /\ pr_confidence' = c
                 /\ pr_result' = _parse_ranking_response(
                        [has_ranked |-> TRUE, items |-> items,
                         has_confidence |-> c.has_confidence,
                         confidence |-> c.confidence], tasks)
    /\ pr_pc' = "parsed"

\* the response is returned; the engine is ready for the next request
PrNextCall ==
    /\ pr_pc = "parsed"
    /\ pr_pc' = "idle"
    /\ pr_tasks' = <<>>
    /\ pr_items' = <<>>
    /\ pr_confidence' = NoResult
    /\ pr_result' = NoResult

PrNext ==
    \/ OracleAnswersScored /\ UNCHANGED <<depVars, gfVars, feVars, swVars, ordVars, ubVars, chVars, tlVars, enVars, cxVars, afVars>>
    \/ OracleAsked /\ UNCHANGED <<depVars, gfVars, feVars, swVars, ordVars, ubVars, chVars, tlVars, enVars, cxVars, afVars>>
    \/ OracleWritesItem /\ UNCHANGED <<depVars, gfVars, feVars, swVars, ordVars, ubVars, chVars, tlVars, enVars, cxVars, afVars>>
    \/ ParseRankingResponse /\ UNCHANGED <<depVars, gfVars, feVars, swVars, ordVars, ubVars, chVars, tlVars, enVars, cxVars, afVars>>
    \/ PrNextCall /\ UNCHANGED <<depVars, gfVars, feVars, swVars, ordVars, ubVars, chVars, tlVars, enVars, cxVars, afVars>>

----------------------------------------------------------------------------
(* tools/handlers.py: add_comment, bulk_update_tasks and upsert_task.       *)
(* A string that is only tested for emptiness is "" or a word; a colour is  *)
(* the sequence of its characters.                                          *)

TlInit ==
    /\ tl_pc = "idle"
    /\ tl_call = NoResult
    /\ tl_result = NoResult
    /\ tl_source = <<>>

ValueError(message) == [kind |-> "ValueError", message |-> message]

\* an exception of the task source, which the handler does not catch
SourceError == [kind |-> "SourceError"]

ToolRaises(error) ==
    /\ tl_pc' = "raised"
    /\ tl_result' = error

ToolReturns(response) ==
    /\ tl_pc' = "returned"
    /\ tl_result' = response

\* add_comment(task_id, comment); ok: the task source accepts the comment
add_comment(task_id, comment, ok) ==
    /\ tl_call' = [op |-> "add_comment", task_id |-> task_id, comment |-> comment]
    /\ IF comment = ""
       THEN /\ ToolRaises(ValueError("Comment cannot be empty"))
            /\ UNCHANGED tl_source
       ELSE /\ tl_source' = Append(tl_source, [op |-> "add_comment", task_id |-> task_id])
            /\ IF ok
               THEN ToolReturns([kind |-> "response", status |-> "succeeded",
                                 task_id |-> task_id])
               ELSE ToolRaises(SourceError)

\* c in "0123456789ABCDEFabcdef"
HexCharacters ==
    {"0", "1", "2", "3", "4", "5", "6", "7", "8", "9", "A", "B", "C", "D", "E", "F",
     "a", "b", "c", "d", "e", "f"}

\* a colour that passes every test
WellFormedColourAlways(hex_color) == TRUE

\* not (len(hex_color) != 6 or not all(c in "0123456789ABCDEFabcdef" ...))
WellFormedColour(hex_color) ==
    Len(hex_color) = 6 /\ \A i \in DOMAIN hex_color : hex_color[i] \in HexCharacters

\* the fields of the dict `updates` that are set
BulkUpdates(done, priority, hex_color) ==
    {f \in {"done", "priority", "hex_color"} :
        \/ f = "done" /\ done # <<>>
        \/ f = "priority" /\ priority # <<>>
        \/ f = "hex_color" /\ hex_color # <<>>}

\* bulk_update_tasks(task_ids, done, priority, hex_color); ok[i]: the task
\* source accepts the update of task_ids[i]
bulk_update_tasks(task_ids, done, priority, hex_color, ok) ==
    /\ tl_call' = [op |-> "bulk_update_tasks", task_ids |-> task_ids, done |-> done,
                   priority |-> priority, hex_color |-> hex_color]
    /\ IF task_ids = <<>>
       THEN /\ ToolRaises(ValueError("task_ids list cannot be empty"))
            /\ UNCHANGED tl_source
       ELSE IF priority # <<>> /\ ~(1 <= priority[1] /\ priority[1] <= 5)
       THEN /\ ToolRaises(ValueError("priority must be between 1 and 5"))
            /\ UNCHANGED tl_source
       ELSE IF hex_color # <<>> /\ ~WellFormedColour(hex_color[1])
       THEN /\ ToolRaises(ValueError("hex_color must be 6 hex characters (e.g., 'FF5733')"))
            /\ UNCHANGED tl_source
       ELSE IF BulkUpdates(done, priority, hex_color) = {}
       THEN /\ ToolRaises(ValueError(
                  "At least one update field (done, priority, hex_color) must be provided"))
            /\ UNCHANGED tl_source
       ELSE /\ tl_source' = tl_source \o
                   [i \in DOMAIN task_ids |-> [op |-> "update_task", task_id |-> task_ids[i]]]
            /\ ToolReturns(
                   [kind |-> "response", total_requested |-> Len(task_ids),
                    updates_applied |-> BulkUpdates(done, priority, hex_color),
                    updated_tasks |-> SelectSeq([i \in DOMAIN task_ids |-> i],
                                                LAMBDA i : ok[i]),
                    failed_tasks |-> SelectSeq([i \in DOMAIN task_ids |-> i],
                                               LAMBDA i : ~ok[i])])

\* upsert_task(task_id, project_id, title, ...); an id, None or 0 for
\* task_id and project_id; ok: the task source accepts the write
upsert_task(task_id, project_id, title, ok) ==
    /\ tl_call' = [op |-> "upsert_task", task_id |-> task_id, project_id |-> project_id,
                   title |-> title]
    /\ IF task_id # <<>> /\ task_id[1] # 0
       THEN /\ tl_source' = Append(tl_source, [op |-> "update_task", task_id |-> task_id[1]])
            /\ IF ok
               THEN ToolReturns([kind |-> "response", success |-> TRUE, action |-> "updated"])
               ELSE ToolRaises(SourceError)
       ELSE IF project_id = <<>> \/ project_id[1] = 0
       THEN /\ ToolRaises(ValueError("project_id is required for new tasks"))
            /\ UNCHANGED tl_source
       ELSE IF title = <<>> \/ title[1] = ""
       THEN /\ ToolRaises(ValueError("title is required for new tasks"))
            /\ UNCHANGED tl_source
       ELSE /\ tl_source' = Append(tl_source, [op |-> "upsert_task", task_id |-> 0])
            /\ IF ok
               THEN ToolReturns([kind |-> "response", success |-> TRUE, action |-> "created"])
               ELSE ToolRaises(SourceError)

----------------------------------------------------------------------------
(* Inputs of the tool handlers *)

\* most task ids in a bulk update
MaxBulkIds == 2

Optional(S) == {<<>>} \cup {<<v>> : v \in S}

Colours ==
    {<<"F", "F", "5", "7", "3", "3">>, <<"a", "b", "c", "0", "1", "2">>,
     <<"F", "F", "5", "7">>, <<"G", "G", "5", "7", "3", "3">>,
     <<"F", "F", "5", "7", "3", "3", "0">>}

AddComment ==
    /\ tl_pc = "idle"
    /\ \E comment \in {"", "note"}, ok \in BOOLEAN : add_comment(1, comment, ok)

BulkUpdateTasks ==
    /\ tl_pc = "idle"
    /\ \E n \in 0..MaxBulkIds :
          \E task_ids \in [1..n -> {1, 2}], ok \in [1..n -> BOOLEAN],
             done \in Optional(BOOLEAN), priority \in Optional({0, 1, 5, 6}),
             hex_color \in Optional(Colours) :
             bulk_update_tasks(task_ids, done, priority, hex_color, ok)

UpsertTask ==
    /\ tl_pc = "idle"
    /\ \E task_id \in Optional({0, 5}), project_id \in Optional({0, 1}),
          title \in Optional({"", "T"}), ok \in BOOLEAN :
          upsert_task(task_id, project_id, title, ok)

\* the result goes back to the client; the handlers keep no state
TlNextCall ==
    /\ tl_pc \in {"returned", "raised"}
    /\ tl_pc' = "idle"
    /\ tl_call' = NoResult
    /\ tl_result' = NoResult
    /\ tl_source' = <<>>

TlNext ==
    \/ AddComment /\ UNCHANGED <<depVars, gfVars, feVars, swVars, ordVars, ubVars, chVars, prVars, enVars, cxVars, afVars>>
    \/ BulkUpdateTasks /\ UNCHANGED <<depVars, gfVars, feVars, swVars, ordVars, ubVars, chVars, prVars, enVars, cxVars, afVars>>
    \/ UpsertTask /\ UNCHANGED <<depVars, gfVars, feVars, swVars, ordVars, ubVars, chVars, prVars, enVars, cxVars, afVars>>
    \/ TlNextCall /\ UNCHANGED <<depVars, gfVars, feVars, swVars, ordVars, ubVars, chVars, prVars, enVars, cxVars, afVars>>

\* the tool calls of a client, one at a time: get_filtered_tasks or one of
\* the handlers above
ToolsNext ==
    \/ tl_pc = "idle" /\ GfNext
    \/ gf_pc = "idle" /\ TlNext

----------------------------------------------------------------------------
(* engine/focus_engine.py: enrich_task, _parse_enrichment_response and      *)
(* _embed_metadata; tools/handlers.py: _parse_task and _extract_metadata.   *)
(* A text is a sequence of tokens: a word, a blank, a line break, a fence,  *)
(* the two markers of a metadata block and the tokens of a JSON object.     *)
(* The JSON text of a metadata object is                                    *)
(*   { energy mode hyper_focus_comp " instructions " }                      *)
(* with the instructions as their own tokens; the other fields of           *)
(* HyperFocusMetadata are written and read the same way as                  *)
(* hyper_focus_comp and are left out.                                       *)

MetaStart == "<!-- HYPERFOCUS_METADATA:"
MetaEnd == ":END_METADATA -->"

\* metadata.model_dump_json()
model_dump_json(metadata) ==
    <<"{", metadata.energy, metadata.mode, Digit(metadata.hyper_focus_comp), "\"">>
    \o metadata.instructions \o <<"\"", "}">>

JSONDecodeError == [kind |-> "JSONDecodeError"]

\* json.loads(text): the object, or JSONDecodeError when text is not the
\* JSON text of an object
json_loads(text) ==
    IF /\ Len(text) >= 7
       /\ text[1] = "{" /\ text[5] = "\"" /\ text[Len(text) - 1] = "\""
       /\ text[Len(text)] = "}"
       /\ \A i \in 6..(Len(text) - 2) : text[i] \notin {"\"", "{", "}"}
    THEN [kind |-> "object", energy |-> text[2], mode |-> text[3],
          hyper_focus_comp |-> text[4], instructions |-> SubSeq(text, 6, Len(text) - 2)]
    ELSE JSONDecodeError

\* HyperFocusMetadata(...) accepting every value
HyperFocusMetadataUnchecked(data) ==
    [energy |-> data.energy, mode |-> data.mode,
     hyper_focus_comp |-> CHOOSE n \in 0..9 : Digit(n) = data.hyper_focus_comp,
     instructions |-> data.instructions]

\* HyperFocusMetadata(energy=EnergyLevel(...), mode=WorkMode(...), ...): the
\* metadata, or the ValueError of an unknown energy or mode or of a
\* hyper_focus_comp outside 1..5
HyperFocusMetadata(data) ==
    IF /\ data.energy \in EnergyLevel
       /\ data.mode \in WorkMode
       /\ data.hyper_focus_comp \in {Digit(n) : n \in 1..5}
    THEN [energy |-> data.energy, mode |-> data.mode,
          hyper_focus_comp |-> CHOOSE n \in 1..5 : Digit(n) = data.hyper_focus_comp,
          instructions |-> data.instructions]
    ELSE ValidationError

\* re.sub(r"^FENCE\w*\n?", "", text) and re.sub(r"\n?FENCE$", "", text) on a
\* text that starts with a fence
WithoutFences(text) ==
    LET opened == IF Len(text) >= 2 /\ text[2] = "\n" THEN SubSeq(text, 3, Len(text))
                  ELSE Tail(text)
        n == Len(opened)
    IN  IF n >= 1 /\ opened[n] = "FENCE"
        THEN IF n >= 2 /\ opened[n - 1] = "\n" THEN SubSeq(opened, 1, n - 2)
             ELSE SubSeq(opened, 1, n - 1)
        ELSE opened

\* _parse_enrichment_response(response_text): the metadata or the error raised
_parse_enrichment_response(response_text) ==
    LET text == strip(response_text)
        cleaned == IF text # <<>> /\ Head(text) = "FENCE" THEN WithoutFences(text) ELSE text
        data == json_loads(cleaned)
    IN  IF data = JSONDecodeError THEN JSONDecodeError ELSE HyperFocusMetadata(data)

\* _embed_metadata(description, metadata)
_embed_metadata(description, metadata) ==
    description \o <<"\n", "\n", MetaStart>> \o model_dump_json(metadata) \o <<MetaEnd>>

\* the first match of the pattern MetaStart(.*?)MetaEnd in t: [from, to], the
\* positions of its markers, or [from |-> 0, to |-> 0] when there is none
BlockMatch(t) ==
    LET from == FirstIndex(t, MetaStart)
        rest == SubSeq(t, from + 1, Len(t))
    IN  IF from = 0 \/ FirstIndex(rest, MetaEnd) = 0 THEN [from |-> 0, to |-> 0]
        ELSE [from |-> from, to |-> from + FirstIndex(rest, MetaEnd)]

\* re.sub(pattern, "", t)
RECURSIVE WithoutBlocks(_)
WithoutBlocks(t) ==
    LET m == BlockMatch(t)
    IN  IF m.from = 0 THEN t
        ELSE SubSeq(t, 1, m.from - 1) \o WithoutBlocks(SubSeq(t, m.to + 1, Len(t)))

\* _extract_metadata without the strip() of the clean description
_extract_metadata_unstripped(description) ==
    LET m == BlockMatch(description)
        data == json_loads(SubSeq(description, m.from + 1, m.to - 1))
        metadata == IF data = JSONDecodeError THEN ValidationError
                    ELSE HyperFocusMetadata(data)
    IN  IF m.from = 0 \/ metadata = ValidationError
        THEN [clean_description |-> description, metadata |-> NoMeta]
        ELSE [clean_description |-> WithoutBlocks(description), metadata |-> metadata]

\* _extract_metadata(description): the pair (clean description, metadata)
_extract_metadata(description) ==
    LET m == BlockMatch(description)
        data == json_loads(SubSeq(description, m.from + 1, m.to - 1))
        metadata == IF data = JSONDecodeError THEN ValidationError
                    ELSE HyperFocusMetadata(data)
    IN  IF m.from = 0 \/ metadata = ValidationError
        THEN [clean_description |-> description, metadata |-> NoMeta]
        ELSE [clean_description |-> strip(WithoutBlocks(description)),
              metadata |-> metadata]

\* _parse_task(raw_task), for a raw task with this description
_parse_task(description) ==
    [description |-> description,
     metadata |-> _extract_metadata(description).metadata,
     clean_description |-> _extract_metadata(description).clean_description]

\* enrich_task(task, available_labels) when the oracle does `answer`: the
\* pair returned, the task as the call leaves it
enrich_task(task, answer) ==
    IF task.metadata # NoMeta THEN [task |-> task, enriched |-> FALSE]
    ELSE LET metadata == IF answer.ok THEN _parse_enrichment_response(answer.text)
                         ELSE ValidationError
         IN  IF metadata \in {ValidationError, JSONDecodeError}
             THEN [task |-> task, enriched |-> FALSE]
             ELSE [task |-> [task EXCEPT !.metadata = metadata,
                                !.description =
                                    _embed_metadata(task.clean_description, metadata)],
                   enriched |-> TRUE]

EnInit ==
    /\ en_pc = "idle"
    /\ en_task = NoResult
    /\ en_answer = NoResult
    /\ en_calls = 0
    /\ en_result = NoResult
    /\ en_reloaded = NoResult

----------------------------------------------------------------------------
(* Inputs of the enrichment *)

\* longest description, in tokens
MaxDescLen == 2

DescTokens == {"a", " "}

\* the metadata objects the oracle writes; the instructions may quote the
\* end marker of a metadata block
OracleMetadata ==
    [energy : {"high"}, mode : {"deep"}, hyper_focus_comp : {1, 5},
     instructions : {<<>>, <<"a">>, <<MetaEnd>>}]

\* what the oracle does on an enrichment request: the call raises, or it
\* returns a text; meta is the metadata a text stands for, NoMeta for a
\* text that is not JSON or holds a value that HyperFocusMetadata rejects
EnrichAnswers ==
    {[ok |-> FALSE, text |-> <<>>, meta |-> NoMeta],
     [ok |-> TRUE, text |-> <<"no", "json">>, meta |-> NoMeta],
     [ok |-> TRUE, text |-> <<"{", "extreme", "deep", "3", "\"", "\"", "}">>, meta |-> NoMeta],
     [ok |-> TRUE, text |-> <<"{", "high", "deep", "9", "\"", "\"", "}">>, meta |-> NoMeta]}
    \cup {[ok |-> TRUE, text |-> model_dump_json(m), meta |-> m] : m \in OracleMetadata}
    \cup {[ok |-> TRUE, text |-> <<" ", "FENCE", "\n">> \o model_dump_json(m)
                                   \o <<"\n", "FENCE", "\n">>, meta |-> m] :
           m \in {x \in OracleMetadata : x.instructions = <<"a">>}}

\* a task is loaded from the task source: its description is a text, or a
\* text with a metadata block written by an earlier enrichment
LoadTask ==
    /\ en_pc = "idle"
    /\ \E n \in 0..MaxDescLen : \E d \in [1..n -> DescTokens] :
          \E description \in {d} \cup {_embed_metadata(d, m) :
                                  m \in {x \in OracleMetadata : x.instructions = <<>>}} :
             en_task' = _parse_task(description)
    /\ en_pc' = "loaded"
    /\ UNCHANGED <<en_answer, en_calls, en_result, en_reloaded>>

\* enrich_task runs on the loaded task; the oracle is called only for a task
\* without metadata
EnrichTask ==
    /\ en_pc = "loaded"
    /\ IF en_task.metadata # NoMeta
       THEN /\ en_answer' = NoResult
            /\ en_calls' = 0
            /\ en_result' = enrich_task(en_task, NoResult)
       ELSE \E answer \in EnrichAnswers :
               /\ en_answer' = answer
               /\ en_calls' = 1
               /\ en_result' = enrich_task(en_task, answer)
    /\ en_pc' = "returned"
    /\ UNCHANGED <<en_task, en_reloaded>>

\* the description of the returned task is written back and the task is
\* loaded again
ReloadTask ==
    /\ en_pc = "returned"
    /\ en_reloaded' = _parse_task(en_result.task.description)
    /\ en_pc' = "reloaded"
    /\ UNCHANGED <<en_task, en_answer, en_calls, en_result>>

EnNextCall ==
    /\ en_pc = "reloaded"
    /\ en_pc' = "idle"
    /\ en_task' = NoResult
    /\ en_answer' = NoResult
    /\ en_calls' = 0
    /\ en_result' = NoResult
    /\ en_reloaded' = NoResult

EnNext ==
    \/ LoadTask /\ UNCHANGED <<depVars, gfVars, feVars, swVars, ordVars, ubVars, chVars, prVars, tlVars, cxVars, afVars>>
    \/ EnrichTask /\ UNCHANGED <<depVars, gfVars, feVars, swVars, ordVars, ubVars, chVars, prVars, tlVars, cxVars, afVars>>
    \/ ReloadTask /\ UNCHANGED <<depVars, gfVars, feVars, swVars, ordVars, ubVars, chVars, prVars, tlVars, cxVars, afVars>>
    \/ EnNextCall /\ UNCHANGED <<depVars, gfVars, feVars, swVars, ordVars, ubVars, chVars, prVars, tlVars, cxVars, afVars>>

----------------------------------------------------------------------------
(* context.py: ContextManager.__init__, get_context and                     *)
(* parse_embedded_project_context. A context is a record of the fields      *)
(* project_id, name, description, work_type and context_weight; a           *)
(* description is a sequence of tokens, a PROJECT_CONTEXT block being        *)
(*   CtxStart work_type context_weight CtxEnd                               *)

CtxStart == "<!-- PROJECT_CONTEXT:"
CtxEnd == ":END_CONTEXT -->"

ContextIds == {1, 2}

\* the first match of PROJECT_CONTEXT_PATTERN in a description: the positions
\* of its markers, or zeros
ContextMatch(t) ==
    LET from == FirstIndex(t, CtxStart)
        rest == SubSeq(t, from + 1, Len(t))
    IN  IF from = 0 \/ FirstIndex(rest, CtxEnd) = 0 THEN [from |-> 0, to |-> 0]
        ELSE [from |-> from, to |-> from + FirstIndex(rest, CtxEnd)]

\* re.sub(PROJECT_CONTEXT_PATTERN, "", description)
RECURSIVE WithoutContextBlocks(_)
WithoutContextBlocks(t) ==
    LET m == ContextMatch(t)
    IN  IF m.from = 0 THEN t
        ELSE SubSeq(t, 1, m.from - 1) \o WithoutContextBlocks(SubSeq(t, m.to + 1, Len(t)))

\* parse_embedded_project_context(project): the context of the first block
\* of the description, or NoContext when there is no block, when its text
\* is not a JSON object or when ProjectContext rejects its context_weight
parse_embedded_project_context(project) ==
    LET m == ContextMatch(project.description)
        body == SubSeq(project.description, m.from + 1, m.to - 1)
    IN  IF m.from = 0 THEN NoContext
        ELSE IF Len(body) # 2 THEN NoContext
        ELSE IF ~\E w \in 1..10 : DecimalText(w) = <<body[2]>> THEN NoContext
        ELSE [project_id |-> project.id, name |-> project.title,
              description |-> strip(WithoutContextBlocks(project.description)),
              work_type |-> body[1],
              context_weight |-> CHOOSE w \in 1..10 : DecimalText(w) = <<body[2]>>]

\* ProjectContext.from_partial(project)
from_partial(project) ==
    [project_id |-> project.id, name |-> project.title,
     description |-> project.description, work_type |-> "general", context_weight |-> 5]

\* the update the other way round: the file's contexts over the given ones
ConfigUpdateFileFirst(file_config, project_config) ==
    [id \in ContextIds |->
        IF file_config[id] # NoContext THEN file_config[id] ELSE project_config[id]]

\* self._config.update(project_config) on the contexts loaded from the file
ConfigUpdate(file_config, project_config) ==
    [id \in ContextIds |->
        IF project_config[id] # NoContext THEN project_config[id] ELSE file_config[id]]

\* get_context that looks at the description before the configuration
get_context_embedded_first(config, project) ==
    IF parse_embedded_project_context(project) # NoContext
    THEN [returned |-> parse_embedded_project_context(project),
          config |-> [config EXCEPT ![project.id] = parse_embedded_project_context(project)]]
    ELSE IF config[project.id] # NoContext
    THEN [returned |-> config[project.id], config |-> config]
    ELSE [returned |-> from_partial(project), config |-> config]

\* get_context(project) on the configuration `config`: the context returned
\* and the configuration the call leaves
get_context(config, project) ==
    IF config[project.id] # NoContext
    THEN [returned |-> config[project.id], config |-> config]
    ELSE IF parse_embedded_project_context(project) # NoContext
    THEN [returned |-> parse_embedded_project_context(project),
          config |-> [config EXCEPT ![project.id] = parse_embedded_project_context(project)]]
    ELSE [returned |-> from_partial(project), config |-> config]

CxInit ==
    /\ cx_pc = "new"
    /\ cx_config = [id \in ContextIds |-> NoContext]
    /\ cx_given = [file |-> [id \in ContextIds |-> NoContext],
                   explicit |-> [id \in ContextIds |-> NoContext]]
    /\ cx_first = [id \in ContextIds |-> NoContext]
    /\ cx_call = NoResult

----------------------------------------------------------------------------
(* Inputs of the context manager *)

\* the requests of a session that call get_context
MaxRequests == 2

\* a configured context of project 1, from the file or passed to __init__
Configured(name, work_type, context_weight) ==
    [project_id |-> 1, name |-> name, description |-> <<>>, work_type |-> work_type,
     context_weight |-> context_weight]

\* the configurations a source may hold: nothing, or a context for project 1
FileConfigs ==
    {[id \in ContextIds |-> NoContext],
     [id \in ContextIds |-> IF id = 1 THEN Configured("From File", "admin", 3)
                            ELSE NoContext]}

ExplicitConfigs ==
    {[id \in ContextIds |-> NoContext],
     [id \in ContextIds |-> IF id = 1 THEN Configured("Explicit", "research", 9)
                            ELSE NoContext]}

\* descriptions: none, a text, a text with a block (two different ones), a
\* block whose context_weight is out of range
ProjectDescriptions ==
    {<<>>, <<"a">>,
     <<"a", "\n", CtxStart, "coding", "8", CtxEnd>>,
     <<CtxStart, "writing", "2", CtxEnd>>,
     <<CtxStart, "coding", "11", CtxEnd>>}

PartialProjects == [id : ContextIds, title : {"A", "B"}, description : ProjectDescriptions]

\* ContextManager(project_config, config_path)
NewContextManager ==
    /\ cx_pc = "new"
    /\ \E file_config \in FileConfigs, project_config \in ExplicitConfigs :
          /\ cx_config' = ConfigUpdate(file_config, project_config)
          /\ cx_given' = [file |-> file_config, explicit |-> project_config]
    /\ cx_pc' = "ready"
    /\ UNCHANGED <<cx_first, cx_call>>

\* one of the requests calls get_context(project)
GetContext ==
    /\ cx_pc = "ready"
    /\ \E project \in PartialProjects, request \in 1..MaxRequests :
          LET call == get_context(cx_config, project)
          IN  /\ cx_config' = call.config
              /\ cx_call' = [project |-> project, held |-> cx_config[project.id],
                             returned |-> call.returned, request |-> request]
              /\ cx_first' = IF cx_first[project.id] = NoContext
                             THEN [cx_first EXCEPT ![project.id] = call.returned]
                             ELSE cx_first
    /\ UNCHANGED <<cx_pc, cx_given>>

CxNext ==
    \/ NewContextManager /\ UNCHANGED <<depVars, gfVars, feVars, swVars, ordVars, ubVars, chVars, prVars, tlVars, enVars, afVars>>
    \/ GetContext /\ UNCHANGED <<depVars, gfVars, feVars, swVars, ordVars, ubVars, chVars, prVars, tlVars, enVars, afVars>>

----------------------------------------------------------------------------
(* engine/focus_engine.py: _apply_filters called on its own, over every      *)
(* energy and mode of the tasks' metadata and of the options                 *)

\* longest task list given to _apply_filters
MaxFilterTasks == 2

\* the metadata of a task: none, every energy in deep mode, and the other
\* two modes at medium energy
FilterMetadata ==
    {NoMeta} \cup [energy : EnergyLevel, mode : {"deep"}]
             \cup [energy : {"medium"}, mode : {"quick", "admin"}]

FilterTaskKinds ==
    [done : BOOLEAN, project_id : {1, 2}, metadata : FilterMetadata, blocked : BOOLEAN]

\* the task list of kinds k: ids are the positions, a blocked task has one
\* peer that is not done
FilterTaskList(k) ==
    [i \in DOMAIN k |->
        [id |-> i, done |-> k[i].done, priority |-> 3, project_id |-> k[i].project_id,
         metadata |-> k[i].metadata,
         blocked |-> IF k[i].blocked THEN <<[id |-> 101, done |-> FALSE]>> ELSE <<>>,
         blocking |-> <<>>]]

FilterOptions ==
    {[energy |-> e, mode |-> m, max_tasks |-> 10,
      only_projects |-> f.only_projects, exclude_projects |-> f.exclude_projects] :
     e \in EnergyLevel, m \in WorkMode, f \in ProjectFilters}

AfInit ==
    /\ af_pc = "idle"
    /\ af_tasks = <<>>
    /\ af_options = [energy |-> "medium", mode |-> "deep", max_tasks |-> 10,
                     only_projects |-> {}, exclude_projects |-> {}]
    /\ af_result = [actionable |-> <<>>, blocked |-> <<>>]

\* one call of _apply_filters(tasks, options)
ApplyFilters ==
    /\ af_pc = "idle"
    /\ \E n \in 0..MaxFilterTasks :
          \E k \in [1..n -> FilterTaskKinds], options \in FilterOptions :
              /\ af_tasks' = FilterTaskList(k)
              /\ af_options' = options
              /\ af_result' = _apply_filters(FilterTaskList(k), options)
    /\ af_pc' = "returned"

\* get_focus_tasks goes on with the pair; the engine is ready again
AfNextCall ==
    /\ af_pc = "returned"
    /\ af_pc' = "idle"
    /\ af_tasks' = <<>>
    /\ af_options' = [energy |-> "medium", mode |-> "deep", max_tasks |-> 10,
                      only_projects |-> {}, exclude_projects |-> {}]
    /\ af_result' = [actionable |-> <<>>, blocked |-> <<>>]

AfNext ==
    \/ ApplyFilters /\ UNCHANGED <<depVars, gfVars, feVars, swVars, ordVars, ubVars, chVars, prVars, tlVars, enVars, cxVars>>
    \/ AfNextCall /\ UNCHANGED <<depVars, gfVars, feVars, swVars, ordVars, ubVars, chVars, prVars, tlVars, enVars, cxVars>>

----------------------------------------------------------------------------
(* Specifications *)

Init == DepInit /\ GfInit /\ FeInit /\ SwInit /\ OrdInit /\ UbInit /\ ChInit
        /\ PrInit /\ TlInit /\ EnInit /\ CxInit /\ AfInit

SpecDep == Init /\ [][DepNext]_vars

SpecFilter == Init /\ [][GfNext]_vars

SpecFocus == Init /\ [][FeNext]_vars

SpecSwitch == Init /\ [][SwNext]_vars

SpecOrder == Init /\ [][OrdNext]_vars

SpecUnblock == Init /\ [][UbNext]_vars

SpecChain == Init /\ [][ChNext]_vars

SpecParse == Init /\ [][PrNext]_vars

SpecTools == Init /\ [][ToolsNext]_vars

SpecEnrich == Init /\ [][EnNext]_vars

SpecContext == Init /\ [][CxNext]_vars

SpecApply == Init /\ [][AfNext]_vars

\* the checker runs to its return once called: its code is sequential and
\* nothing in it waits
SpecChainLive == Init /\ [][ChNext]_vars /\ WF_chVars(ChStep)

----------------------------------------------------------------------------
(* Properties of filter_blocked_tasks *)

Ids(s) == {s[i].id : i \in DOMAIN s}

\* the elements of out are elements of inp, in the order they have in inp
\* (the tasks of one list have distinct, ascending ids)
KeepsOrderOf(out, inp) ==
    /\ \A i \in DOMAIN out : out[i].id \in DOMAIN inp /\ inp[out[i].id] = out[i]
    /\ \A i, j \in DOMAIN out : i < j => out[i].id < out[j].id

\* C6: a task is in `blocked` if and only if at least one of its "blocked"
\* peer references has done = false; a task with no "blocked" peers, or
\* whose "blocked" peers are all done, is in `actionable`.
C6_BlockedIffUndonePeer ==
    dep_pc = "returned" =>
        \A i \in DOMAIN dep_tasks :
            LET t == dep_tasks[i]
                undone == \E j \in DOMAIN t.blocked : t.blocked[j].done = FALSE
            IN  /\ (t \in Range(dep_result.blocked)) <=> undone
                /\ (t.blocked = <<>> \/ \A j \in DOMAIN t.blocked : t.blocked[j].done)
                      => t \in Range(dep_result.actionable)

\* a call that sorted a task with a done and an undone peer into `blocked`,
\* and a task with only done peers and a task without peers into `actionable`
C6_Witness ==
    /\ dep_pc = "returned"
    /\ \E t \in Range(dep_result.blocked) :
          /\ \E j \in DOMAIN t.blocked : t.blocked[j].done
          /\ \E j \in DOMAIN t.blocked : ~t.blocked[j].done
    /\ \E t \in Range(dep_result.actionable) :
          t.blocked # <<>> /\ \A j \in DOMAIN t.blocked : t.blocked[j].done
    /\ \E t \in Range(dep_result.actionable) : t.blocked = <<>>

\* C7: the two output lists partition the input: every input task is in
\* exactly one of them, no other task is in either, and each list keeps the
\* relative order of the input.
C7_Partition ==
    dep_pc = "returned" =>
        /\ Ids(dep_result.actionable) \cup Ids(dep_result.blocked) = Ids(dep_tasks)
        /\ Ids(dep_result.actionable) \cap Ids(dep_result.blocked) = {}
        /\ Len(dep_result.actionable) + Len(dep_result.blocked) = Len(dep_tasks)
        /\ KeepsOrderOf(dep_result.actionable, dep_tasks)
        /\ KeepsOrderOf(dep_result.blocked, dep_tasks)

\* a call whose blocked and actionable tasks interleave in the input and
\* whose two output lists each hold more than one task
C7_Witness ==
    /\ dep_pc = "returned"
    /\ Len(dep_tasks) >= 3
    /\ is_blocked(dep_tasks[1]) /\ ~is_blocked(dep_tasks[2]) /\ is_blocked(dep_tasks[3])
    /\ Len(dep_result.blocked) >= 2

----------------------------------------------------------------------------
(* Properties of get_filtered_tasks *)

\* the call is a natural-language request: no direct filter was given
NaturalLanguageCall == gf_pc # "idle" /\ gf_args.filter = NoText /\ gf_args.natural_request # NoText

\* the (filter, error) pairs of the failed attempts so far, in attempt order
FailedPairs == [i \in DOMAIN gf_errors |-> [filter |-> gf_queries[i], error |-> gf_errors[i]]]

\* C3: when the first k generated filters (k = 1 or 2) fail on execution and
\* the next one succeeds, the summary reports retry_attempts = k and
\* previous_errors holds exactly those k (filter, error) pairs in attempt
\* order; when the first attempt succeeds the summary has no retry_attempts.
C3_RetrySummary ==
    (NaturalLanguageCall /\ gf_pc = "returned") =>
        LET k == Len(gf_errors)
            summary == gf_result.summary
        IN  /\ k \in 0..2
            /\ k = 0 => "retry_attempts" \notin DOMAIN summary
            /\ k > 0 => /\ "retry_attempts" \in DOMAIN summary
                        /\ summary.retry_attempts = k
                        /\ summary.previous_errors = FailedPairs

\* a call that succeeded on its third attempt after two different failures
C3_Witness ==
    /\ NaturalLanguageCall /\ gf_pc = "returned"
    /\ Len(gf_errors) = 2 /\ gf_errors[1] # gf_errors[2]
    /\ gf_queries[1] # gf_queries[2]
    /\ gf_result.summary.retry_attempts = 2

\* C4: when every generated filter fails on execution, exactly 3 attempts
\* are made, never a 4th, and then one ValueError is raised whose report has
\* total_attempts 3 and lists exactly the 3 attempts, each with the filter
\* tried and its error, plus a suggestion.
C4_ThreeAttemptsThenError ==
    NaturalLanguageCall =>
        /\ Len(gf_queries) <= 3 /\ Len(gf_answers) <= 3 /\ Len(gf_requests) <= 3
        /\ Len(gf_errors) = 3 <=> gf_pc = "raised"
        /\ gf_pc = "raised" =>
              /\ gf_result.kind = "ValueError"
              /\ Len(gf_queries) = 3
              /\ gf_result.report.total_attempts = 3
              /\ gf_result.report.attempts = FailedPairs
              /\ Len(gf_result.report.attempts) = 3
              /\ gf_result.report.suggestion # ""

\* a call whose three attempts all failed
C4_Witness ==
    /\ NaturalLanguageCall /\ gf_pc = "raised"
    /\ Len(gf_errors) = 3
    /\ \A i \in 1..3 : gf_answers[i].ok

\* C5: every filter executed against the task source is the text the
\* oracle returned for that attempt (cleaned of blanks and fences, with only
\* the optional project clause added); no default filter is ever
\* substituted, also when the oracle call itself fails.
C5_OnlyOracleFilters ==
    NaturalLanguageCall =>
        \A i \in DOMAIN gf_queries :
            /\ gf_answers[i].ok
            /\ gf_queries[i] =
                   WithProjectClause(CleanFilterText(gf_answers[i].text), gf_args.project_id)

----------------------------------------------------------------------------
(* Properties of get_focus_tasks and daily_focus *)

FocusReturned == fe_pc = "returned" /\ fe_result.kind = "response"

\* the except branch of get_focus_tasks was entered because the oracle call raised
OracleRaised == \E i \in DOMAIN fe_stages : fe_stages[i] = "oracle_raised"

\* the except branch was entered, for a raising call or an unparsable answer
OracleFailure ==
    \E i \in DOMAIN fe_stages : fe_stages[i] \in {"oracle_raised", "parse_failed"}

\* task t passes the contextual filters of `options`: its project is allowed
\* and its energy and mode, when it has metadata, suit the user's
PassesContext(t, options) ==
    /\ options.only_projects # {} => t.project_id \in options.only_projects
    /\ t.project_id \notin options.exclude_projects
    /\ \/ t.metadata = NoMeta
       \/ /\ \/ t.metadata.energy = options.energy
             \/ /\ "social" \notin {t.metadata.energy, options.energy}
                /\ <<t.metadata.energy, options.energy>> \in
                       {<<"low", "medium">>, <<"low", "high">>, <<"medium", "high">>}
          /\ t.metadata.mode = options.mode \/ options.mode = "admin"

HasUndoneBlocker(t) == \E i \in DOMAIN t.blocked : t.blocked[i].done = FALSE

\* t is ranked before u by priority descending, ties in input order (the
\* tasks of a request have ascending ids)
RanksBefore(t, u) ==
    t.priority > u.priority \/ (t.priority = u.priority /\ t.id < u.id)

\* C1: when the oracle call made by get_focus_tasks raises, the returned
\* DecisionResponse has fallback=True, strategy "heuristic_fallback",
\* confidence 0.6, and its ranked tasks are the actionable candidates sorted
\* by priority descending (ties in input order), cut to the first
\* options.max_tasks.
C1_FallbackResponse ==
    (FocusReturned /\ OracleRaised) =>
        LET ranked == fe_result.ranked_tasks
            chosen == {ranked[i].task : i \in DOMAIN ranked}
        IN  /\ fe_result.fallback = TRUE
            /\ fe_result.strategy = "heuristic_fallback"
            /\ fe_result.confidence = 6
            /\ Len(ranked) = Min(fe_options.max_tasks, Len(fe_actionable))
            /\ chosen \subseteq Range(fe_actionable)
            /\ \A i, j \in DOMAIN ranked :
                   i < j => RanksBefore(ranked[i].task, ranked[j].task)
            /\ \A t \in Range(fe_actionable) \ chosen :
                   \A u \in chosen : RanksBefore(u, t)

\* a fallback response that had to break a tie and to cut the list
C1_Witness ==
    /\ FocusReturned /\ OracleRaised
    /\ Len(fe_actionable) = 2
    /\ fe_actionable[1].priority = fe_actionable[2].priority
    /\ fe_options.max_tasks = 1
    /\ Len(fe_result.ranked_tasks) = 1
    /\ fe_result.ranked_tasks[1].task = fe_actionable[1]

\* a fallback response that had to reorder the candidates
C1_WitnessReordered ==
    /\ FocusReturned /\ OracleRaised
    /\ Len(fe_actionable) = 2
    /\ fe_actionable[1].priority < fe_actionable[2].priority
    /\ Len(fe_result.ranked_tasks) = 2
    /\ fe_result.ranked_tasks[1].task = fe_actionable[2]

\* C2: for every failure of the oracle call or of parsing its response, and
\* for every set of actionable tasks whatever their integer priorities,
\* get_focus_tasks returns a DecisionResponse and raises no error to its
\* caller.
C2_FallbackNeverRaises ==
    OracleFailure => (fe_pc = "returned" /\ fe_result.kind = "response")

\* C8: in every DecisionResponse returned by get_focus_tasks, on the oracle
\* path and on the fallback path alike, each ranked task is one of the input
\* tasks that passed the contextual filters, is not done and is not blocked.
C8_RankedAreCandidates ==
    FocusReturned =>
        \A i \in DOMAIN fe_result.ranked_tasks :
            LET t == fe_result.ranked_tasks[i].task
            IN  /\ t \in Range(fe_tasks)
                /\ PassesContext(t, fe_options)
                /\ t.done = FALSE
                /\ ~HasUndoneBlocker(t)

\* an oracle ranking returned for a request of which one task was filtered
\* out and one was ranked
C8_Witness ==
    /\ FocusReturned
    /\ fe_result.strategy = "gemini_ranking"
    /\ Len(fe_tasks) = 2
    /\ Len(fe_actionable) = 1
    /\ Len(fe_result.ranked_tasks) >= 1

\* a fallback ranking returned for a request of which one task was blocked
C8_WitnessFallback ==
    /\ FocusReturned
    /\ fe_result.strategy = "heuristic_fallback"
    /\ Len(fe_blocked) = 1
    /\ Len(fe_result.ranked_tasks) = 1

\* the input tasks that passed the filters
FilteredTasks ==
    {t \in Range(fe_tasks) : PassesContext(t, fe_options) /\ t.done = FALSE}

FocusCalled == fe_pc # "idle"

\* C9: when no actionable task remains after filtering and the actionability
\* split, get_focus_tasks returns, without raising, a response with an empty
\* ranked list, confidence 0.0, strategy "contextual_filter" and
\* fallback=False, whose reasoning mentions the blocked count exactly when at
\* least one filtered task was blocked.
C9_NoActionableResponse ==
    (FocusCalled /\ \A t \in FilteredTasks : HasUndoneBlocker(t)) =>
        /\ FocusReturned
        /\ fe_result.ranked_tasks = <<>>
        /\ fe_result.confidence = 0
        /\ fe_result.strategy = "contextual_filter"
        /\ fe_result.fallback = FALSE
        /\ fe_result.reasoning.mentions_blocked <=> (FilteredTasks # {})
        /\ fe_result.reasoning.mentions_blocked =>
               fe_result.reasoning.blocked_count = Cardinality(FilteredTasks)

\* a request whose only filtered task is blocked, beside a task that was
\* filtered out
C9_Witness ==
    /\ FocusReturned
    /\ fe_result.strategy = "contextual_filter"
    /\ Len(fe_tasks) = 2
    /\ Cardinality(FilteredTasks) = 1
    /\ fe_result.reasoning.mentions_blocked
    /\ fe_result.reasoning.blocked_count = 1

\* a request with no filtered task at all
C9_WitnessNoneBlocked ==
    /\ FocusReturned
    /\ fe_result.strategy = "contextual_filter"
    /\ fe_tasks # <<>>
    /\ FilteredTasks = {}
    /\ ~fe_result.reasoning.mentions_blocked

\* C10: the blocked-task count that daily_focus reports
\* (summary.blocked_tasks_excluded) equals the number of tasks that the
\* actionability split removed from the ranking input of that same request.
C10_BlockedCountIsSplitCount ==
    df_result.kind = "response" =>
        df_result.summary.blocked_tasks_excluded = Len(fe_blocked)

\* a blocked task of an excluded project: counted, though the split never saw it
C10_CountsFilteredOutTask ==
    /\ df_result.kind = "response"
    /\ \E i \in DOMAIN fe_tasks :
          /\ HasUndoneBlocker(fe_tasks[i])
          /\ fe_tasks[i].done = FALSE
          /\ fe_tasks[i].project_id \in fe_options.exclude_projects
    /\ fe_blocked = <<>>
    /\ df_result.summary.blocked_tasks_excluded = 1

----------------------------------------------------------------------------
(* Properties of calculate_switch_cost *)

SwitchReturned == sw_pc = "returned"

\* the worst pair: weight delta 9, different work types, energies LOW and
\* HIGH, disjoint non-empty tool sets, different domains, not related
WorstCasePair(a, b) ==
    /\ a # NoContext
    /\ a.project_id # b.project_id
    /\ Abs(a.context_weight - b.context_weight) = 9
    /\ a.work_type # b.work_type
    /\ {a.typical_energy, b.typical_energy} = {"low", "high"}
    /\ a.requires_tools # {} /\ b.requires_tools # {}
    /\ a.requires_tools \cap b.requires_tools = {}
    /\ a.domain # b.domain
    /\ b.project_id \notin a.related_projects

\* C11: for every pair of project contexts a, b with context_weight in 1..10
\* (and for a = None), calculate_switch_cost(a, b) lies in [0, 1]; it equals
\* exactly 1.0 for the worst-case pair.
C11_CostInUnitInterval ==
    SwitchReturned =>
        /\ 0 <= sw_cost /\ sw_cost <= UnitCost
        /\ WorstCasePair(sw_from, sw_to) => sw_cost = UnitCost

\* the worst-case pair was costed, and its terms add up to more than 1.0
C11_Witness ==
    /\ SwitchReturned
    /\ WorstCasePair(sw_from, sw_to)
    /\ SwitchTerms(sw_from, sw_to) > UnitCost
    /\ sw_cost = UnitCost

\* a first load (from_project = None) of the heaviest context: 0.5
C11_WitnessFirstLoad ==
    /\ SwitchReturned
    /\ sw_from = NoContext
    /\ sw_to.context_weight = 10
    /\ sw_cost = 100

\* C12: calculate_switch_cost(a, b) is exactly 0.0 whenever a and b have the
\* same project_id, whatever their other fields (weight, work type, energy,
\* tools, domain).
C12_SameProjectZero ==
    (SwitchReturned /\ sw_from # NoContext /\ sw_from.project_id = sw_to.project_id) =>
        sw_cost = 0

\* two contexts of one project that differ in every other field
C12_Witness ==
    /\ SwitchReturned
    /\ sw_from # NoContext
    /\ sw_from.project_id = sw_to.project_id
    /\ sw_from.context_weight # sw_to.context_weight
    /\ sw_from.work_type # sw_to.work_type
    /\ sw_from.typical_energy # sw_to.typical_energy
    /\ sw_from.domain # sw_to.domain
    /\ sw_from.requires_tools # sw_to.requires_tools
    /\ SwitchTerms(sw_from, sw_to) > 0
    /\ sw_cost = 0

\* the same pair with `to` taken off from.related_projects
Unrelated(a, b) ==
    [a EXCEPT !.related_projects = a.related_projects \ {b.project_id}]

\* C13: for every pair of contexts (from, to) with different project ids, the
\* switch cost when `to` is listed in from.related_projects is strictly lower
\* than the cost of the otherwise-identical pair in which `to` is not listed.
C13_RelatedStrictlyLower ==
    (/\ SwitchReturned
     /\ sw_from # NoContext
     /\ sw_from.project_id # sw_to.project_id
     /\ sw_to.project_id \in sw_from.related_projects) =>
        sw_cost < calculate_switch_cost(Unrelated(sw_from, sw_to), sw_to)

\* a related pair of equal weights: the discount halves a base cost of zero
C13_EqualWeightsNoDiscount ==
    /\ SwitchReturned
    /\ sw_from # NoContext
    /\ sw_from.project_id # sw_to.project_id
    /\ sw_to.project_id \in sw_from.related_projects
    /\ sw_from.context_weight = sw_to.context_weight
    /\ sw_cost = calculate_switch_cost(Unrelated(sw_from, sw_to), sw_to)

\* with different weights the related pair is strictly cheaper
C13_DifferentWeightsLower ==
    (/\ SwitchReturned
     /\ sw_from # NoContext
     /\ sw_from.project_id # sw_to.project_id
     /\ sw_to.project_id \in sw_from.related_projects
     /\ sw_from.context_weight # sw_to.context_weight) =>
        sw_cost < calculate_switch_cost(Unrelated(sw_from, sw_to), sw_to)

----------------------------------------------------------------------------
(* Properties of optimize_task_order *)

OrderReturned == ord_pc = "returned"

\* no task of another project stands between two tasks of one project
SameProjectContiguous(out) ==
    \A i, j, k \in DOMAIN out :
        (i < j /\ j < k /\ out[i].project_id = out[k].project_id) =>
            out[j].project_id = out[i].project_id

AllProjectsListed(tasks, projects) ==
    \A i \in DOMAIN tasks : project_map_get(projects, tasks[i].project_id) # NoContext

C15_CurrentProjectFirst ==
    (/\ OrderReturned
     /\ ord_current # NoProject
     /\ \E i \in DOMAIN ord_tasks : ord_tasks[i].project_id = ord_current) =>
        \A i, j \in DOMAIN ord_result :
            (ord_result[j].project_id = ord_current /\ ord_result[i].project_id # ord_current)
                => j < i

\* the current project is missing from the project list: its task sits in
\* bucket 0 and a listed project's task comes out first
C15_UnlistedCurrentNotFirst ==
    /\ OrderReturned
    /\ Len(ord_tasks) = 2
    /\ ord_current = ord_tasks[2].project_id
    /\ project_map_get(ord_projects, ord_current) = NoContext
    /\ ord_result[1].project_id # ord_current

\* with the current project in the project list its tasks come first
C15_ListedCurrentFirst ==
    (/\ OrderReturned
     /\ ord_current # NoProject
     /\ project_map_get(ord_projects, ord_current) # NoContext
     /\ \E i \in DOMAIN ord_tasks : ord_tasks[i].project_id = ord_current) =>
        \A i, j \in DOMAIN ord_result :
            (ord_result[j].project_id = ord_current /\ ord_result[i].project_id # ord_current)
                => j < i

\* C16: the output of optimize_task_order is a permutation of its input (no
\* task lost, none duplicated), and any two tasks of the same project keep
\* the relative order they had in the input (the tasks of a list have
\* ascending ids).
C16_PermutationKeepingProjectOrder ==
    OrderReturned =>
        /\ Len(ord_result) = Len(ord_tasks)
        /\ Range(ord_result) = Range(ord_tasks)
        /\ \A i, j \in DOMAIN ord_result :
               (i < j /\ ord_result[i].project_id = ord_result[j].project_id) =>
                   ord_result[i].id < ord_result[j].id

\* a reordered list in which a project has two tasks
C16_Witness ==
    /\ OrderReturned
    /\ ord_result # ord_tasks
    /\ \E i, j \in DOMAIN ord_result :
          /\ i < j
          /\ ord_result[i].project_id = ord_result[j].project_id
          /\ ord_result[i].id < ord_result[j].id

----------------------------------------------------------------------------
(* Properties of get_unblocking_tasks *)

BlocksCount(t) == Len(t.blocking)

\* C17: get_unblocking_tasks returns exactly the tasks of its input that are
\* not done and have at least one "blocking" peer, ordered by the number of
\* tasks they block, descending, with tasks of equal count in their input
\* order (the tasks of a list have ascending ids).
C17_UnblockingTasks ==
    ub_pc = "returned" =>
        /\ Range(ub_result) =
               {t \in Range(ub_tasks) : t.done = FALSE /\ BlocksCount(t) >= 1}
        /\ Cardinality(Range(ub_result)) = Len(ub_result)
        /\ \A i, j \in DOMAIN ub_result :
               i < j =>
                   \/ BlocksCount(ub_result[i]) > BlocksCount(ub_result[j])
                   \/ /\ BlocksCount(ub_result[i]) = BlocksCount(ub_result[j])
                      /\ ub_result[i].id < ub_result[j].id

\* tasks blocking one, three and one other tasks: the three-blocker moved to
\* the front, the two one-blockers stay in input order
C17_Witness ==
    /\ ub_pc = "returned"
    /\ Len(ub_tasks) = 3
    /\ BlocksCount(ub_tasks[1]) = 1 /\ ~ub_tasks[1].done
    /\ BlocksCount(ub_tasks[2]) = 3 /\ ~ub_tasks[2].done
    /\ BlocksCount(ub_tasks[3]) = 1 /\ ~ub_tasks[3].done
    /\ [i \in DOMAIN ub_result |-> ub_result[i].id] = <<2, 1, 3>>

\* a done task that blocks others is left out
C17_WitnessDoneLeftOut ==
    /\ ub_pc = "returned"
    /\ \E i \in DOMAIN ub_tasks : ub_tasks[i].done /\ BlocksCount(ub_tasks[i]) >= 1
    /\ ub_result # <<>>

----------------------------------------------------------------------------
(* Chain analysis *)

ProgressReturned == ch_pc = "returned" /\ ch_op = "calculate_chain_progress"

\* tasks is a linear chain of at least two tasks: each blocks the next, and
\* both ends of every relation record it
IsLinearChain(tasks) ==
    /\ Len(tasks) >= 2
    /\ tasks = LinearChain([i \in DOMAIN tasks |-> tasks[i].done])

DoneCount(tasks) == Cardinality({i \in DOMAIN tasks : tasks[i].done})

\* text reads "c/n (p%)" with p the multiple of 0.1 nearest to 100*c/n
ReadsAsProgress(text, c, n) ==
    \E t \in 0..1000 :
        /\ 2 * Abs(t * n - 1000 * c) <= n
        /\ text = DecimalText(c) \o <<"/">> \o DecimalText(n) \o <<" ", "(">>
                  \o DecimalText(t \div 10) \o <<".">> \o DecimalText(t % 10)
                  \o <<"%", ")">>

C18_WitnessThreeOfFour ==
    /\ ProgressReturned
    /\ IsLinearChain(ch_tasks)
    /\ Len(ch_tasks) = 4
    /\ DoneCount(ch_tasks) = 3
    /\ Len(ch_result.entries) = 4
    /\ ch_result.entries[4].text =
           <<"3", "/", "4", " ", "(", "7", "5", ".", "0", "%", ")">>

NoRepeat(s) == \A i, j \in DOMAIN s : s[i] = s[j] => i = j

ChainCalled == ch_pc \in {"root", "build", "analyze"}

\* C19: whatever the relations of the task list are (cycles, references to
\* tasks that are not in the list), get_blocking_info and
\* calculate_chain_progress return: neither the walk up to the root nor the
\* walk down the chain runs on a task id twice
C19_WalksTerminate ==
    /\ [](NoRepeat(ch_up) /\ NoRepeat(ch_down))
    /\ (ChainCalled ~> (ch_pc = "returned"))

\* get_blocking_info has returned for task 1 of a two-task cycle of blockers:
\* the walk up ran on 1 and on 2 and ended there
C19_Witness ==
    /\ ch_pc = "returned"
    /\ ch_op = "get_blocking_info"
    /\ ch_task.id = 1
    /\ blocked_by_ids(ch_tasks[1]) = <<2>>
    /\ blocked_by_ids(ch_tasks[2]) = <<1>>
    /\ ch_up = <<1, 2>>
    /\ ch_root = 2

\* calculate_chain_progress has returned over a list whose tasks 1 and 2
\* block each other and whose task 3 blocks a task that is not in the list
C19_WitnessAbsentTarget ==
    /\ ProgressReturned
    /\ blocking_ids(ch_tasks[1]) = <<2>>
    /\ blocking_ids(ch_tasks[2]) = <<1>>
    /\ blocking_ids(ch_tasks[3]) = <<AbsentId>>
    /\ ch_down = <<3, AbsentId>>
    /\ Len(ch_result.entries) = 3

----------------------------------------------------------------------------
(* Parsing the oracle's ranking *)

RankingParsed == pr_pc = "parsed"

\* the items _parse_ranking_response reads
FirstItems == SubSeq(pr_items, 1, Min(top_items, Len(pr_items)))

\* how many of the items read name the candidate at 0-based index j
ItemsNaming(j) == Cardinality({i \in DOMAIN FirstItems : FirstItems[i].index = j})

\* how many ranked entries hold task t
EntriesFor(t) ==
    Cardinality({k \in DOMAIN pr_result.ranked_tasks : pr_result.ranked_tasks[k].task = t})

\* C20: parsing a ranking over n candidates returns a response (nothing is
\* raised) in which every item among the first 10 whose index is in 0..n-1
\* has one entry for the task at that index, items with an index outside
\* the range have none, and there are at most 10 entries
C20_RankingIndexRange ==
    RankingParsed =>
        /\ pr_result.kind = "response"
        /\ pr_result.strategy = "gemini_ranking"
        /\ Len(pr_result.ranked_tasks) <= 10
        /\ \A j \in 0..(Len(pr_tasks) - 1) : EntriesFor(pr_tasks[j + 1]) = ItemsNaming(j)
        /\ \A k \in DOMAIN pr_result.ranked_tasks :
               \E j \in 0..(Len(pr_tasks) - 1) :
                   /\ pr_result.ranked_tasks[k].task = pr_tasks[j + 1]
                   /\ ItemsNaming(j) > 0

\* eleven items, two of them among the first ten out of range (one below,
\* one above): eight entries, the eleventh item is not read
C20_Witness ==
    /\ RankingParsed
    /\ Len(pr_tasks) = 1
    /\ Len(pr_items) = 11
    /\ pr_items[2].index = -1
    /\ pr_items[5].index = 1
    /\ pr_items[11].index = 0
    /\ Len(pr_result.ranked_tasks) = 8

\* eleven items in range over two candidates: ten entries, and the one for
\* the second candidate (the higher score) comes first
C20_WitnessTenEntries ==
    /\ RankingParsed
    /\ Len(pr_tasks) = 2
    /\ Len(pr_items) = 11
    /\ \A i \in 1..11 : pr_items[i].index = (IF i = 10 THEN 1 ELSE 0)
    /\ Len(pr_result.ranked_tasks) = 10
    /\ pr_result.ranked_tasks[1].task = pr_tasks[2]

\* the items read whose index names a candidate, in the oracle's order
ItemsKept == SelectSeq(FirstItems, LAMBDA it : 0 <= it.index /\ it.index < Len(pr_tasks))

\* a score or confidence x put into [0, 1]: the nearest value of the range
Nearest(x, y) == InUnitRange(y) /\ \A z \in 0..10 : Abs(x - y) <= Abs(x - z)

\* C21: in a response parsed from an oracle ranking, every score and the
\* confidence lie in [0, 1] (the value given, moved to the nearest end of
\* the range when outside), the entries are in non-increasing score order,
\* entries of equal score in the order the oracle gave them, strategy is
\* "gemini_ranking" and fallback is False
C21_ParsedResponseClamped ==
    RankingParsed =>
        LET ranked == pr_result.ranked_tasks
            with(score) == SelectSeq(ranked, LAMBDA e : e.score = score)
            given(score) == SelectSeq(ItemsKept, LAMBDA it : Nearest(it.score, score))
        IN  /\ pr_result.strategy = "gemini_ranking"
            /\ pr_result.fallback = FALSE
            /\ InUnitRange(pr_result.confidence)
            /\ pr_confidence.has_confidence =>
                   Nearest(pr_confidence.confidence, pr_result.confidence)
            /\ \A k \in DOMAIN ranked : InUnitRange(ranked[k].score)
            /\ \A k \in 1..(Len(ranked) - 1) : ranked[k].score >= ranked[k + 1].score
            /\ \A score \in 0..10 :
                   [k \in DOMAIN with(score) |-> with(score)[k].task]
                       = [k \in DOMAIN given(score) |-> pr_tasks[given(score)[k].index + 1]]

\* scores 1.2 and 1.5 for the first and the second candidate, confidence
\* 1.5: both entries have score 1.0 and keep the oracle's order, the
\* confidence is 1.0
C21_Witness ==
    /\ RankingParsed
    /\ Len(pr_tasks) = 2
    /\ pr_items = <<[index |-> 0, score |-> 12], [index |-> 1, score |-> 15]>>
    /\ pr_confidence = [has_confidence |-> TRUE, confidence |-> 15]
    /\ pr_result.confidence = 10
    /\ pr_result.ranked_tasks =
           <<[task |-> pr_tasks[1], score |-> 10, reasoning |-> "AI"],
             [task |-> pr_tasks[2], score |-> 10, reasoning |-> "AI"]>>

\* a negative score and a negative confidence become 0.0, and the entry
\* with the higher score moves to the front
C21_WitnessReordered ==
    /\ RankingParsed
    /\ Len(pr_tasks) = 2
    /\ pr_items = <<[index |-> 0, score |-> -3], [index |-> 1, score |-> 4]>>
    /\ pr_confidence = [has_confidence |-> TRUE, confidence |-> -2]
    /\ pr_result.confidence = 0
    /\ pr_result.ranked_tasks =
           <<[task |-> pr_tasks[2], score |-> 4, reasoning |-> "AI"],
             [task |-> pr_tasks[1], score |-> 0, reasoning |-> "AI"]>>

----------------------------------------------------------------------------
(* Malformed oracle output *)

FocusEnded == fe_pc \in {"returned", "raised"}

\* the oracle's text is not valid JSON
AnswerNotJson == fe_answer = [kind |-> "not_json"]

\* the oracle's text is a JSON object without ranked_tasks or confidence
AnswerLacksFields ==
    /\ fe_answer.kind = "object"
    /\ ~fe_answer.has_ranked \/ ~fe_answer.has_confidence

\* what get_focus_tasks returns when the oracle call fails
OnOracleFailure == _heuristic_fallback(fe_actionable, fe_options)

\* C22: malformed oracle output (text that is not valid JSON, or a JSON
\* object with missing fields) gets the response an oracle call failure gets
C22_MalformedGetsFallback ==
    (FocusEnded /\ (AnswerNotJson \/ AnswerLacksFields)) => fe_result = OnOracleFailure

\* text that is not valid JSON does get that response
C22_InvalidJsonGetsFallback ==
    (FocusEnded /\ AnswerNotJson) => fe_result = OnOracleFailure

\* an object without ranked_tasks and confidence is parsed: no entries,
\* confidence 0.7, strategy "gemini_ranking", fallback False
C22_MissingFieldsParsed ==
    /\ FocusEnded
    /\ AnswerLacksFields
    /\ fe_result = DecisionResponse(<<>>, Reasoning("AI-ranked tasks"), 7,
                                    "gemini_ranking", FALSE)
    /\ fe_result # OnOracleFailure

----------------------------------------------------------------------------
(* Invalid input *)

\* six characters, each a hexadecimal digit
IsHexColour(c) == Len(c) = 6 /\ \A i \in DOMAIN c : c[i] \in HexCharacters

Absent(x) == x = <<>>

\* the invalid inputs of add_comment, bulk_update_tasks and upsert_task
InvalidToolInput(call) ==
    \/ /\ call.op = "add_comment"
       /\ call.comment = ""
    \/ /\ call.op = "bulk_update_tasks"
       /\ \/ call.task_ids = <<>>
          \/ ~Absent(call.priority) /\ call.priority[1] \notin 1..5
          \/ ~Absent(call.hex_color) /\ ~IsHexColour(call.hex_color[1])
          \/ Absent(call.done) /\ Absent(call.priority) /\ Absent(call.hex_color)
    \/ /\ call.op = "upsert_task"
       /\ Absent(call.task_id) \/ call.task_id[1] = 0
       /\ \/ Absent(call.project_id) \/ call.project_id[1] = 0
          \/ Absent(call.title) \/ call.title[1] = ""

\* get_filtered_tasks was called with neither filter nor natural_request
NoFilterGiven ==
    gf_pc # "idle" /\ gf_args.filter = NoText /\ gf_args.natural_request = NoText

\* C23: invalid input is rejected with a ValueError before any call to the
\* task source or the oracle, and nothing is retried: get_filtered_tasks
\* without filter and natural_request, add_comment with empty text,
\* bulk_update_tasks with no ids, a priority outside 1..5, a malformed colour
\* or no update field, upsert_task creating a task without project_id or title
C23_InvalidInputRejected ==
    /\ NoFilterGiven =>
           /\ gf_pc = "raised"
           /\ gf_result.kind = "ValueError"
           /\ gf_queries = <<>> /\ gf_requests = <<>> /\ gf_answers = <<>>
           /\ gf_attempts = <<>>
    /\ (tl_pc # "idle" /\ InvalidToolInput(tl_call)) =>
           /\ tl_pc = "raised"
           /\ tl_result.kind = "ValueError"
           /\ tl_source = <<>>

\* a bulk update of two tasks with a colour holding a character that is no
\* hexadecimal digit
C23_Witness ==
    /\ tl_pc = "raised"
    /\ tl_call.op = "bulk_update_tasks"
    /\ Len(tl_call.task_ids) = 2
    /\ tl_call.priority = <<5>>
    /\ tl_call.hex_color = <<(<<"G", "G", "5", "7", "3", "3">>)>>
    /\ tl_result.kind = "ValueError"

\* get_filtered_tasks with neither argument
C23_WitnessNoFilter == NoFilterGiven /\ gf_pc = "raised"

\* upsert_task with task_id 0 and no title
C23_WitnessCreateWithoutTitle ==
    /\ tl_pc = "raised"
    /\ tl_call.op = "upsert_task"
    /\ tl_call.task_id = <<0>>
    /\ tl_call.project_id = <<1>>
    /\ tl_call.title = <<>>

----------------------------------------------------------------------------
(* Enrichment *)

EnrichReturned == en_pc \in {"returned", "reloaded"}

\* the oracle was asked and its answer stands for valid metadata
AnswerIsMetadata == en_calls = 1 /\ en_answer.meta # NoMeta

\* C24: enrich_task reports enriched=True only for a task without metadata
\* whose oracle answer parsed into valid metadata; for a task that has
\* metadata (the oracle is not called) and for a failed call or parse it
\* returns the task with metadata and description unchanged and
\* enriched=False, and raises nothing
C24_EnrichedOnlyFromValidAnswer ==
    EnrichReturned =>
        /\ en_result.enriched \in BOOLEAN
        /\ en_result.enriched <=> (en_task.metadata = NoMeta /\ AnswerIsMetadata)
        /\ en_task.metadata # NoMeta => en_calls = 0
        /\ ~en_result.enriched => en_result.task = en_task
        /\ en_result.enriched =>
               /\ en_result.task.metadata = en_answer.meta
               /\ en_result.task.clean_description = en_task.clean_description

\* the oracle answered with an energy that is no EnergyLevel: not enriched
C24_Witness ==
    /\ EnrichReturned
    /\ en_task.metadata = NoMeta
    /\ en_answer.ok /\ en_answer.text[2] = "extreme"
    /\ en_result = [task |-> en_task, enriched |-> FALSE]

\* a task that has metadata is returned as it is, without an oracle call
C24_WitnessHasMetadata ==
    /\ EnrichReturned
    /\ en_task.metadata # NoMeta
    /\ en_calls = 0
    /\ en_result = [task |-> en_task, enriched |-> FALSE]

\* a fenced answer is parsed and the task is enriched
C24_WitnessEnriched ==
    /\ EnrichReturned
    /\ en_answer.ok /\ Head(en_answer.text) = " "
    /\ en_result.enriched
    /\ en_result.task.metadata.instructions = <<"a">>
    /\ en_result.task.description # en_task.description

\* an enriched task has been loaded again
EnrichedAndReloaded == en_pc = "reloaded" /\ en_result.enriched

\* C25: embedding metadata m into a description d without a metadata block
\* and extracting again returns d, byte for byte, as the clean description
\* and m as the metadata, as when an enriched task is loaded again
C25_EmbedExtractRoundTrip ==
    EnrichedAndReloaded =>
        /\ en_result.task.description =
               _embed_metadata(en_task.clean_description, en_result.task.metadata)
        /\ en_reloaded.clean_description = en_task.clean_description
        /\ en_reloaded.metadata = en_result.task.metadata

\* the round trip does hold for a description without blanks at its ends and
\* metadata whose instructions do not quote the end marker
C25_TrimmedRoundTrip ==
    (/\ EnrichedAndReloaded
     /\ strip(en_task.clean_description) = en_task.clean_description
     /\ \A i \in DOMAIN en_result.task.metadata.instructions :
            en_result.task.metadata.instructions[i] # MetaEnd) =>
        /\ en_reloaded.clean_description = en_task.clean_description
        /\ en_reloaded.metadata = en_result.task.metadata

\* a description that ends with a blank comes back without it
C25_BlankLost ==
    /\ EnrichedAndReloaded
    /\ en_task.clean_description = <<"a", " ">>
    /\ en_reloaded.clean_description = <<"a">>
    /\ en_reloaded.metadata = en_result.task.metadata

\* instructions that quote the end marker: the block is cut short, no
\* metadata is extracted and the block stays in the clean description
C25_MetadataLost ==
    /\ EnrichedAndReloaded
    /\ en_task.clean_description = <<"a">>
    /\ en_result.task.metadata.instructions = <<MetaEnd>>
    /\ en_reloaded.metadata = NoMeta
    /\ en_reloaded.clean_description = en_result.task.description

----------------------------------------------------------------------------
(* Properties of the project-context cache *)

ContextCalled == cx_call # NoResult

\* the projects a request may pass for the id of the last call
SameIdProjects == {q \in PartialProjects : q.id = cx_call.project.id}

\* C26: whatever the order in which the requests' get_context calls run, an
\* entry of the cache, once present for a project id, is never replaced or
\* removed, a call writes no key but its project's, and after a call has
\* written a key a further call for that key, whatever its record, leaves
\* the cache as it is.
C26_CacheAppendOnly ==
    [][cx_pc = "ready" =>
         /\ \A id \in ContextIds :
              cx_config[id] # NoContext => cx_config'[id] = cx_config[id]
         /\ \A id \in ContextIds \ {cx_call'.project.id} : cx_config'[id] = cx_config[id]
         /\ \A q \in PartialProjects :
              (q.id = cx_call'.project.id /\ cx_config'[q.id] # NoContext)
                  => get_context(cx_config', q).config = cx_config']_vars

\* a second request calls for an id whose entry an earlier call wrote from
\* another description's block: the entry is returned and kept
C26_Witness ==
    /\ ContextCalled
    /\ cx_call.request = 2
    /\ cx_call.held # NoContext
    /\ cx_given.file[cx_call.project.id] = NoContext
    /\ cx_given.explicit[cx_call.project.id] = NoContext
    /\ parse_embedded_project_context(cx_call.project) # NoContext
    /\ parse_embedded_project_context(cx_call.project) # cx_call.held
    /\ cx_config[cx_call.project.id] = cx_call.held

\* a call writes the entry of an id that had none
C26_WitnessFirstWrite ==
    /\ ContextCalled
    /\ cx_call.held = NoContext
    /\ cx_config[cx_call.project.id] = parse_embedded_project_context(cx_call.project)
    /\ cx_config[cx_call.project.id] # NoContext

\* C27: after the first get_context call for a project id, every later call
\* for that id returns the context the first one returned, whatever record
\* is passed.
C27_SameContextPerId ==
    ContextCalled => cx_call.returned = cx_first[cx_call.project.id]

\* the case that holds: an id with an entry in the cache
C27_CachedContextKept ==
    (ContextCalled /\ cx_call.held # NoContext) => cx_call.returned = cx_call.held

\* a later call for an id returns another default context than the first
C27_DefaultsDiffer ==
    /\ ContextCalled
    /\ cx_first[cx_call.project.id] = from_partial([cx_call.project EXCEPT !.title = "A"])
    /\ cx_call.returned = from_partial(cx_call.project)
    /\ cx_call.project.title = "B"

\* a later call for an id returns an embedded context after a default one
C27_EmbeddedAfterDefault ==
    /\ ContextCalled
    /\ cx_first[cx_call.project.id].work_type = "general"
    /\ cx_call.returned = parse_embedded_project_context(cx_call.project)

\* the context configured for an id when the manager was made: the one
\* passed to it, else the one of the file, else none
Preconfigured(id) ==
    IF cx_given.explicit[id] # NoContext THEN cx_given.explicit[id] ELSE cx_given.file[id]

\* the priority of configuration, description and defaults
Resolved(project) ==
    IF Preconfigured(project.id) # NoContext THEN Preconfigured(project.id)
    ELSE IF parse_embedded_project_context(project) # NoContext
    THEN parse_embedded_project_context(project)
    ELSE from_partial(project)

C28_WitnessEmbedded ==
    /\ ContextCalled
    /\ cx_call.held = NoContext
    /\ cx_call.returned = parse_embedded_project_context(cx_call.project)
    /\ cx_call.returned.work_type = "coding"
    /\ cx_call.returned.description = <<"a">>

\* a block with a context_weight out of range gives the default context
C28_WitnessDefault ==
    /\ ContextCalled
    /\ cx_call.project.description = <<CtxStart, "coding", "11", CtxEnd>>
    /\ cx_call.returned = from_partial(cx_call.project)

\* the cached context of an earlier block is returned for a description
\* with another block
C28_WitnessCached ==
    /\ ContextCalled
    /\ Preconfigured(cx_call.project.id) = NoContext
    /\ cx_call.held # NoContext
    /\ parse_embedded_project_context(cx_call.project) # NoContext
    /\ cx_call.returned # parse_embedded_project_context(cx_call.project)

----------------------------------------------------------------------------
(* The stages of a ranking request *)

\* the positions of a stage in the history of the request
StagePositions(stage) == {i \in DOMAIN fe_stages : fe_stages[i] = stage}

\* the stage histories of a request that has ended, a call that raised in
\* its fallback having no result
EndedStages ==
    {<<"filter", "split", "result">>,
     <<"filter", "split", "oracle", "parsed", "result">>,
     <<"filter", "split", "oracle", "oracle_raised", "fallback", "result">>,
     <<"filter", "split", "oracle", "parse_failed", "fallback", "result">>,
     <<"filter", "split", "oracle", "oracle_raised", "fallback">>,
     <<"filter", "split", "oracle", "parse_failed", "fallback">>}

\* C29: a get_focus_tasks run goes through Filter, Actionability Split,
\* Oracle Ranking, Fallback and Result in that order; the oracle is called
\* at most once, after the filter and the split and only with an actionable
\* task left; the fallback runs only after that call raised or its answer
\* could not be parsed; and a response has fallback = TRUE exactly when the
\* fallback ran.
C29_StagesInOrder ==
    /\ fe_pc = "idle" => fe_stages = <<>>
    /\ fe_pc = "oracle" => fe_stages = <<"filter", "split", "oracle">>
    /\ FocusEnded => fe_stages \in EndedStages
    /\ Cardinality(StagePositions("oracle")) <= 1
    /\ StagePositions("oracle") # {} =>
          /\ fe_actionable # <<>>
          /\ fe_actionable = _apply_filters(fe_tasks, fe_options).actionable
    /\ (FocusEnded /\ fe_actionable # <<>>) => StagePositions("oracle") # {}
    /\ StagePositions("fallback") # {} =>
          /\ fe_answer.kind \in {"raised", "not_json"}
          /\ fe_stages[4] \in {"oracle_raised", "parse_failed"}
    /\ (FocusEnded /\ fe_answer # NoResult /\ fe_answer.kind \in {"raised", "not_json"})
          => StagePositions("fallback") # {}
    /\ FocusReturned => (fe_result.fallback <=> StagePositions("fallback") # {})
    /\ fe_pc = "raised" => StagePositions("result") = {}

\* the fallback ran after an answer that was not JSON, and the response says so
C29_Witness ==
    /\ FocusReturned
    /\ fe_stages = <<"filter", "split", "oracle", "parse_failed", "fallback", "result">>
    /\ fe_result.fallback
    /\ Len(fe_actionable) = 2

\* the oracle's ranking was parsed: no fallback, and the response says so
C29_WitnessParsed ==
    /\ FocusReturned
    /\ fe_stages = <<"filter", "split", "oracle", "parsed", "result">>
    /\ ~fe_result.fallback
    /\ fe_blocked # <<>>

\* no actionable task: no oracle call
C29_WitnessNoOracle ==
    /\ FocusReturned
    /\ fe_tasks # <<>>
    /\ fe_stages = <<"filter", "split", "result">>

----------------------------------------------------------------------------
(* The reference switch cost, in two-hundredths *)

\* the term B: |weight delta|/10, halved for a related project and times
\* 0.7 inside one non-empty domain; over 200 that is |delta| times 1 or 2
\* times 7 or 10
ReferenceBase(a, b) ==
    (IF a.context_weight >= b.context_weight
     THEN a.context_weight - b.context_weight
     ELSE b.context_weight - a.context_weight)
    * (IF b.project_id \in a.related_projects THEN 1 ELSE 2)
    * (IF a.domain = b.domain /\ a.domain # "" THEN 7 ELSE 10)

\* the term W: 0.15 on different work types
ReferenceWorkType(a, b) == IF a.work_type = b.work_type THEN 0 ELSE 30

\* the term E: 0.1 per step on LOW < MEDIUM < HIGH, 0.2 when the energies
\* differ and one is SOCIAL
ReferenceEnergy(a, b) ==
    LET e == {a.typical_energy, b.typical_energy}
    IN  CASE Cardinality(e) = 1 -> 0
          [] "social" \in e -> 40
          [] e = {"low", "high"} -> 40
          [] OTHER -> 20

\* the term T: 0.1 when both tool sets are non-empty and share no tool
ReferenceTools(a, b) ==
    IF a.requires_tools = {} \/ b.requires_tools = {} THEN 0
    ELSE IF \E t \in a.requires_tools : t \in b.requires_tools THEN 0
    ELSE 20

ReferenceSum(a, b) ==
    ReferenceBase(a, b) + ReferenceWorkType(a, b) + ReferenceEnergy(a, b)
        + ReferenceTools(a, b)

\* the context a without its relation to other projects and without domain
DetachedContext(a) == [a EXCEPT !.related_projects = {}, !.domain = ""]

\* C30: calculate_switch_cost equals the reference: to.context_weight/20
\* with no current context; for different project ids min(1.0, B + W + E + T);
\* and the terms W, E and T are those of the same pair without relatedness
\* and domain.
C30_EqualsReference ==
    SwitchReturned =>
        /\ sw_from = NoContext => sw_cost * 20 = sw_to.context_weight * UnitCost
        /\ (sw_from # NoContext /\ sw_from.project_id # sw_to.project_id) =>
              /\ sw_cost = IF ReferenceSum(sw_from, sw_to) > UnitCost THEN UnitCost
                           ELSE ReferenceSum(sw_from, sw_to)
              /\ sw_cost < UnitCost =>
                    sw_cost - ReferenceBase(sw_from, sw_to)
                        = ReferenceSum(DetachedContext(sw_from), sw_to)
                              - ReferenceBase(DetachedContext(sw_from), sw_to)

\* a related project of the same domain, with every other term present and
\* the sum below the cap: B = 0.9 * 0.5 * 0.7, W = 0.15, E = 0.2, T = 0.1
C30_Witness ==
    /\ SwitchReturned
    /\ sw_from # NoContext
    /\ sw_to.project_id \in sw_from.related_projects
    /\ sw_from.domain = "infra" /\ sw_to.domain = "infra"
    /\ ReferenceBase(sw_from, sw_to) = 63
    /\ sw_from.work_type # sw_to.work_type
    /\ "social" \in {sw_from.typical_energy, sw_to.typical_energy}
    /\ sw_from.typical_energy # sw_to.typical_energy
    /\ sw_from.requires_tools = {"browser"} /\ sw_to.requires_tools = {"vscode"}
    /\ sw_cost = 153

\* two energy steps without SOCIAL, the sum above the cap
C30_WitnessCapped ==
    /\ SwitchReturned
    /\ sw_from # NoContext
    /\ {sw_from.typical_energy, sw_to.typical_energy} = {"low", "high"}
    /\ ReferenceSum(sw_from, sw_to) > UnitCost
    /\ sw_cost = UnitCost

\* no current context: the default weight costs 0.25
C30_WitnessFirstLoad ==
    /\ SwitchReturned
    /\ sw_from = NoContext
    /\ sw_to.context_weight = 5
    /\ sw_cost = 50

----------------------------------------------------------------------------
(* The greedy order of the groups *)

\* the key a task is grouped under: its project id when the project list
\* holds it, else 0
GroupKey(task) ==
    IF \E i \in DOMAIN ord_projects : ord_projects[i].project_id = task.project_id
    THEN task.project_id ELSE 0

\* the context the list holds for a key, or none
KeyContext(key) ==
    IF \E i \in DOMAIN ord_projects : ord_projects[i].project_id = key
    THEN project_map_get(ord_projects, key) ELSE NoContext

\* the positions of the output where a group starts
GroupStarts ==
    {i \in DOMAIN ord_result :
        \A j \in 1..(i - 1) : GroupKey(ord_result[j]) # GroupKey(ord_result[i])}

\* where a key is first met in the input
FirstSeen(key) ==
    CHOOSE i \in DOMAIN ord_tasks :
        /\ GroupKey(ord_tasks[i]) = key
        /\ \A j \in 1..(i - 1) : GroupKey(ord_tasks[j]) # key

CurrentGiven == ord_current # NoProject /\ ord_current # 0

\* the current project has a group of its own
CurrentGroupExists ==
    CurrentGiven /\ \E i \in DOMAIN ord_tasks : GroupKey(ord_tasks[i]) = ord_current

\* the context the group starting at output position i is switched to from
ContextBefore(i) ==
    IF i = 1 THEN (IF CurrentGiven THEN KeyContext(ord_current) ELSE NoContext)
    ELSE KeyContext(GroupKey(ord_result[i - 1]))

\* the cost of switching from a context to the group of a key
GroupCost(from_project, key) ==
    IF KeyContext(key) = NoContext THEN UnitCost \div 2
    ELSE calculate_switch_cost(from_project, KeyContext(key))

\* C31: after the current project's group, if there is one, each emitted
\* group has the lowest switch cost from the context of the group emitted
\* before it among the groups not yet emitted, a group without a context
\* costing 0.5; of the groups of equal lowest cost the one first met in the
\* input is emitted.
C31_GreedyLowestCost ==
    (OrderReturned /\ Len(ord_tasks) > 1) =>
        /\ CurrentGroupExists => GroupKey(ord_result[1]) = ord_current
        /\ \A i \in GroupStarts : \A j \in GroupStarts :
              (i < j /\ ~(i = 1 /\ CurrentGroupExists)) =>
                  \/ GroupCost(ContextBefore(i), GroupKey(ord_result[i]))
                        < GroupCost(ContextBefore(i), GroupKey(ord_result[j]))
                  \/ /\ GroupCost(ContextBefore(i), GroupKey(ord_result[i]))
                          = GroupCost(ContextBefore(i), GroupKey(ord_result[j]))
                     /\ FirstSeen(GroupKey(ord_result[i]))
                          < FirstSeen(GroupKey(ord_result[j]))

\* three groups after the current one is none of them: the cheaper group
\* is emitted before one met earlier in the input
C31_Witness ==
    /\ OrderReturned
    /\ Cardinality(GroupStarts) = 3
    /\ ~CurrentGroupExists
    /\ \E i \in GroupStarts : \E j \in GroupStarts :
          /\ i < j
          /\ GroupCost(ContextBefore(i), GroupKey(ord_result[i]))
                < GroupCost(ContextBefore(i), GroupKey(ord_result[j]))
          /\ FirstSeen(GroupKey(ord_result[j])) < FirstSeen(GroupKey(ord_result[i]))

\* a tie between a listed project and the bucket of unlisted ones, both at
\* 0.5: the one met first in the input is emitted first
C31_WitnessTie ==
    /\ OrderReturned
    /\ Len(ord_tasks) > 1
    /\ \E i \in GroupStarts : \E j \in GroupStarts :
          /\ i < j
          /\ ContextBefore(i) # NoContext
          /\ GroupKey(ord_result[i]) # 0 /\ GroupKey(ord_result[j]) = 0
          /\ GroupCost(ContextBefore(i), GroupKey(ord_result[i])) = UnitCost \div 2
          /\ GroupCost(ContextBefore(i), GroupKey(ord_result[j])) = UnitCost \div 2

----------------------------------------------------------------------------
(* Properties of _apply_filters *)

FiltersReturned == af_pc = "returned"

\* the pairs (task energy, requested energy) that match: at most the
\* requested energy on LOW < MEDIUM < HIGH, SOCIAL with SOCIAL only
MatchingEnergies ==
    {<<"low", "low">>, <<"low", "medium">>, <<"low", "high">>,
     <<"medium", "medium">>, <<"medium", "high">>, <<"high", "high">>,
     <<"social", "social">>}

\* the task is one that the filters are to pass on
PassesFilters(t, options) ==
    /\ ~t.done
    /\ options.only_projects # {} => t.project_id \in options.only_projects
    /\ t.project_id \notin options.exclude_projects
    /\ \/ t.metadata = NoMeta
       \/ /\ <<t.metadata.energy, options.energy>> \in MatchingEnergies
          /\ t.metadata.mode = options.mode \/ options.mode = "admin"

\* C32: the tasks that _apply_filters passes on, actionable and blocked
\* together, are exactly the input tasks that are not done, are of a project
\* in only_projects when that set is not empty, are of no project in
\* exclude_projects, and carry no metadata or metadata whose energy is at
\* most the requested one (SOCIAL matching SOCIAL only) and whose mode is
\* the requested one unless ADMIN is requested.
C32_PassedOnExactly ==
    FiltersReturned =>
        Range(af_result.actionable) \cup Range(af_result.blocked)
            = {t \in Range(af_tasks) : PassesFilters(t, af_options)}

\* SOCIAL on one side only drops a task, while a blocked task of matching
\* metadata is passed on
C32_Witness ==
    /\ FiltersReturned
    /\ Len(af_tasks) = 2
    /\ af_options.energy = "social"
    /\ Len(af_result.blocked) = 1
    /\ af_result.actionable = <<>>
    /\ af_result.blocked[1].metadata = [energy |-> "social", mode |-> "deep"]
    /\ \E i \in DOMAIN af_tasks :
          /\ ~af_tasks[i].done
          /\ af_tasks[i].metadata = [energy |-> "low", mode |-> "deep"]

\* ADMIN requested: a task of another mode is passed on
C32_WitnessAdmin ==
    /\ FiltersReturned
    /\ af_options.mode = "admin"
    /\ \E i \in DOMAIN af_result.actionable :
          af_result.actionable[i].metadata = [energy |-> "medium", mode |-> "quick"]

\* a task of another mode than the requested one is dropped
C32_WitnessModeDropped ==
    /\ FiltersReturned
    /\ af_options.mode = "quick" /\ af_options.energy = "high"
    /\ af_options.only_projects = {} /\ af_options.exclude_projects = {}
    /\ af_result.actionable = <<>> /\ af_result.blocked = <<>>
    /\ \E i \in DOMAIN af_tasks :
          ~af_tasks[i].done /\ af_tasks[i].metadata = [energy |-> "medium", mode |-> "deep"]

----------------------------------------------------------------------------
(* The attempts of the natural-language retry loop *)

\* C33: in the natural-language retry loop an attempt is one oracle request
\* followed by at most one task-source query; an attempt starts only after
\* the one before has failed; and the n-th oracle request (n = 1, 2, 3)
\* carries the filter and the error of every earlier failed attempt, in
\* attempt order, the first one carrying none.
C33_RequestsCarryEarlierErrors ==
    NaturalLanguageCall =>
        /\ Len(gf_requests) \in 1..3
        /\ Len(gf_answers) = (IF gf_pc = "suggest" THEN Len(gf_requests) - 1
                              ELSE Len(gf_requests))
        /\ Len(gf_queries) = Len(gf_answers)
        /\ Len(gf_errors) = (IF gf_pc \in {"suggest", "raised"} THEN Len(gf_queries)
                             ELSE Len(gf_queries) - 1)
        /\ \A n \in DOMAIN gf_requests :
              gf_requests[n] = [i \in 1..(n - 1) |->
                                   [filter |-> gf_queries[i], error |-> gf_errors[i]]]

\* the third oracle request is out, carrying two different failed attempts
C33_Witness ==
    /\ NaturalLanguageCall
    /\ gf_pc = "suggest"
    /\ Len(gf_requests) = 3
    /\ Len(gf_requests[3]) = 2
    /\ gf_requests[3][1].filter # gf_requests[3][2].filter
    /\ gf_requests[3][1].error # gf_requests[3][2].error
    /\ gf_requests[1] = <<>>

\* the second attempt's query succeeded: two requests, two queries, one error
C33_WitnessSecondSucceeds ==
    /\ NaturalLanguageCall
    /\ gf_pc = "returned"
    /\ Len(gf_requests) = 2 /\ Len(gf_queries) = 2 /\ Len(gf_errors) = 1

----------------------------------------------------------------------------
(* The direct filter *)

DirectFilterCall == gf_pc # "idle" /\ gf_args.filter # NoText

\* the filter the task source is to be asked with: the expression, in
\* brackets and with the project clause when a project id is given
DirectFilterText ==
    IF gf_args.project_id = 0 THEN gf_args.filter
    ELSE <<"(">> \o gf_args.filter \o <<") && project_id = ", "5">>

\* C34: given a direct filter expression, with or without a
\* natural_request, get_filtered_tasks queries the task source exactly once
\* with that filter (and the project clause, if any), never calls the
\* oracle, and on failure raises one ValueError without a retry.
C34_DirectFilterOnce ==
    DirectFilterCall =>
        /\ gf_queries = <<DirectFilterText>>
        /\ gf_requests = <<>> /\ gf_answers = <<>>
        /\ gf_pc \in {"direct", "returned", "raised"}
        /\ gf_pc = "direct" => gf_errors = <<>>
        /\ gf_pc = "returned" =>
              /\ gf_errors = <<>>
              /\ gf_result.kind = "response"
              /\ gf_result.summary.filter_type = "expression"
        /\ gf_pc = "raised" =>
              /\ Len(gf_errors) = 1
              /\ gf_result.kind = "ValueError"
              /\ gf_result.error = gf_errors[1]
              /\ gf_attempt = 0 /\ gf_attempts = <<>>

\* a direct filter given together with a natural_request and a project id
\* fails: one query, one error, no oracle request
C34_Witness ==
    /\ DirectFilterCall
    /\ gf_args.natural_request # NoText
    /\ gf_args.project_id = 5
    /\ gf_pc = "raised"
    /\ Len(gf_queries) = 1
    /\ Len(gf_queries[1]) = 4

\* a direct filter alone succeeds
C34_WitnessSuccess ==
    /\ DirectFilterCall
    /\ gf_args.natural_request = NoText
    /\ gf_pc = "returned"
    /\ gf_queries = <<gf_args.filter>>

----------------------------------------------------------------------------
(* Chain contexts *)

\* the chain contexts handed out so far, each with the id of the task it
\* was computed for
ChainsFound ==
    IF ch_result.kind = "BlockingInfo"
    THEN (IF ch_result.chain_context = NoChain THEN {}
          ELSE {[id |-> ch_result.task_id, chain |-> ch_result.chain_context]})
    ELSE IF ch_result.kind = "progress_map"
    THEN {[id |-> ch_result.entries[k].id, chain |-> ch_result.entries[k].chain] :
             k \in DOMAIN ch_result.entries}
    ELSE {}

\* the task of an id: the one of the task universe, else the analysed task
AnalysedTask(id) == IF InTaskMap(id) THEN ch_tasks[id] ELSE ch_task

\* the tasks at hand when the task of id is analysed
TasksAtHand(id) == Range(ch_tasks) \cup {AnalysedTask(id)}

\* the task of member tid is done: by its own record when it is at hand,
\* else by the done flag of a reference that names it
MemberDone(tid, id) ==
    IF \E t \in TasksAtHand(id) : t.id = tid
    THEN \E t \in TasksAtHand(id) : t.id = tid /\ t.done
    ELSE \E t \in TasksAtHand(id) :
            \E r \in Range(t.blocked) \cup Range(t.blocking) : r.id = tid /\ r.done

DoneMembers(c) ==
    {k \in DOMAIN c.chain.chain_tasks : MemberDone(c.chain.chain_tasks[k], c.id)}

\* p, in tenths of a percent, is 100 * completed / total rounded to one decimal
RoundedPercent(p, completed, total) ==
    LET delta == p * total - 1000 * completed
    IN  2 * (IF delta < 0 THEN -delta ELSE delta) <= total

\* C35: in every chain context completed_tasks is the number of ids in
\* chain_tasks whose task is done, also when chain members are absent from
\* the task universe, and progress_percent is 100 * completed_tasks /
\* total_tasks rounded to one decimal.
C35_CompletedCountsDoneMembers ==
    \A c \in ChainsFound :
        /\ c.chain.completed_tasks = Cardinality(DoneMembers(c))
        /\ RoundedPercent(c.chain.progress_percent, c.chain.completed_tasks,
                          c.chain.total_tasks)

\* what holds: the count is right when every member is at hand, and the
\* percentage always follows from the count
C35_PresentMembersCounted ==
    \A c \in ChainsFound :
        /\ (\A k \in DOMAIN c.chain.chain_tasks :
                \E t \in TasksAtHand(c.id) : t.id = c.chain.chain_tasks[k])
              => c.chain.completed_tasks = Cardinality(DoneMembers(c))
        /\ RoundedPercent(c.chain.progress_percent, c.chain.completed_tasks,
                          c.chain.total_tasks)

\* task 1 blocks the completed task 8, which get_incomplete_tasks left out:
\* the chain [1, 8] is reported with no completed task
C35_CompletedMemberMissed ==
    /\ ch_pc = "returned" /\ ch_op = "get_blocking_info"
    /\ ch_tasks = IncompleteTasks
    /\ ch_result.task_id = 1
    /\ ch_result.chain_context # NoChain
    /\ ch_result.chain_context.chain_tasks = <<1, CompletedId>>
    /\ ch_result.chain_context.completed_tasks = 0
    /\ ch_result.chain_context.progress_percent = 0

\* a completed task is analysed: an absent member that is not done is
\* counted as completed
C35_AbsentMemberCounted ==
    /\ ch_pc = "returned" /\ ch_op = "get_blocking_info"
    /\ ch_task = DetachedTask
    /\ ch_result.chain_context # NoChain
    /\ AbsentId \in Range(ch_result.chain_context.chain_tasks)
    /\ ch_result.chain_context.completed_tasks = 1

\* C36: every chain context has at least 2 members, lists no id twice, has
\* root_task_id as the first element of chain_tasks, total_tasks equal to
\* the length of chain_tasks and 0 <= completed_tasks <= total_tasks; a task
\* whose chain would have a single member gets no chain context.
C36_ChainContextShape ==
    /\ \A c \in ChainsFound :
          /\ Len(c.chain.chain_tasks) >= 2
          /\ \A i, j \in DOMAIN c.chain.chain_tasks :
                i # j => c.chain.chain_tasks[i] # c.chain.chain_tasks[j]
          /\ c.chain.root_task_id = c.chain.chain_tasks[1]
          /\ c.chain.total_tasks = Len(c.chain.chain_tasks)
          /\ 0 <= c.chain.completed_tasks
          /\ c.chain.completed_tasks <= c.chain.total_tasks
    /\ (ch_pc = "returned" /\ ch_op = "get_blocking_info" /\ Len(ch_chain) < 2)
          => ch_result.chain_context = NoChain
    /\ (ch_pc = "returned" /\ ch_op = "calculate_chain_progress" /\ ch_tasks # <<>>
            /\ Len(ch_chain) < 2)
          => \A k \in DOMAIN ch_result.entries : ch_result.entries[k].id # ch_task.id

\* a cycle of three tasks: a chain context of three different members
C36_Witness ==
    /\ ch_pc = "returned" /\ ch_op = "get_blocking_info"
    /\ ch_result.chain_context # NoChain
    /\ Len(ch_result.chain_context.chain_tasks) = 3
    /\ \E k \in DOMAIN ch_tasks : \E b \in DOMAIN ch_tasks[k].blocking :
          ch_tasks[k].blocking[b].id = ch_result.chain_context.root_task_id

\* a task alone in its chain gets no chain context
C36_WitnessSingle ==
    /\ ch_pc = "returned" /\ ch_op = "get_blocking_info"
    /\ Len(ch_chain) = 1
    /\ ch_task.blocked # <<>>
    /\ ch_result.chain_context = NoChain

\* C37 as stated: the task a chain context or a progress string is given
\* for is itself a member of that chain.
C37_TaskInOwnChain ==
    \A c \in ChainsFound : c.id \in Range(c.chain.chain_tasks)

\* every "blocked" reference between two tasks at hand has its inverse, the
\* "blocking" reference of the blocker to the blocked task
InverseRelationsKept(id) ==
    \A t \in TasksAtHand(id) : \A u \in TasksAtHand(id) :
        (\E r \in Range(t.blocked) : r.id = u.id)
            => (\E r \in Range(u.blocking) : r.id = t.id)

\* C37: when every "blocked" relation between the tasks at hand is recorded
\* with its inverse "blocking" relation, the task a chain context or a
\* progress string is given for is itself a member of that chain.
C37_TaskInOwnChainWhenInverse ==
    \A c \in ChainsFound :
        InverseRelationsKept(c.id) => c.id \in Range(c.chain.chain_tasks)

\* a task in the middle of a fork, with inverse relations kept: a member of
\* the chain built from the root
C37_Witness ==
    /\ ch_pc = "returned" /\ ch_op = "get_blocking_info"
    /\ InverseRelationsKept(ch_task.id)
    /\ ch_result.chain_context # NoChain
    /\ ch_result.chain_context.root_task_id # ch_task.id
    /\ Len(ch_result.chain_context.chain_tasks) = 3
    /\ ch_result.chain_context.chain_tasks[3] = ch_task.id

\* the completed task, absent from the universe, is a member of its chain
C37_WitnessAbsentTask ==
    /\ ch_pc = "returned" /\ ch_op = "get_blocking_info"
    /\ ch_task = CompletedTask
    /\ ch_result.chain_context # NoChain
    /\ CompletedId \in Range(ch_result.chain_context.chain_tasks)

\* a "blocked" reference without its inverse: the chain of the root does
\* not hold the task
C37_WitnessNoInverse ==
    /\ ch_pc = "returned" /\ ch_op = "get_blocking_info"
    /\ ~InverseRelationsKept(ch_task.id)
    /\ ch_result.chain_context # NoChain
    /\ ch_task.id \notin Range(ch_result.chain_context.chain_tasks)

\* C38: optimize_task_order is idempotent: applied to its own output with
\* the same projects and current project it returns that output unchanged.
C38_OrderIdempotent ==
    ord_pc = "returned"
        => optimize_task_order(ord_result, ord_projects, ord_current) = ord_result

\* a list that was reordered, with two groups of equal cost after the
\* current project's group
C38_Witness ==
    /\ ord_pc = "returned"
    /\ ord_result # ord_tasks
    /\ CurrentGroupExists
    /\ \E i, j \in DOMAIN ord_result :
          /\ i < j
          /\ GroupKey(ord_result[i]) # GroupKey(ord_result[j])
          /\ GroupKey(ord_result[i]) # GroupKey(ord_result[1])
          /\ GroupKey(ord_result[j]) # GroupKey(ord_result[1])
          /\ GroupCost(KeyContext(GroupKey(ord_result[1])), GroupKey(ord_result[i]))
               = GroupCost(KeyContext(GroupKey(ord_result[1])), GroupKey(ord_result[j]))

\* a reordered list with tasks of an unknown project in the bucket 0
C38_WitnessUnknownBucket ==
    /\ ord_pc = "returned"
    /\ ord_result # ord_tasks
    /\ \E i \in DOMAIN ord_result : GroupKey(ord_result[i]) = 0

----------------------------------------------------------------------------
(* The ranked tasks of a focus decision *)

\* the ids of the ranked tasks, in order
RankedIds == [i \in DOMAIN fe_result.ranked_tasks |-> fe_result.ranked_tasks[i].task.id]

\* C39: in every DecisionResponse returned by get_focus_tasks for distinct
\* input tasks, each task appears at most once among the ranked tasks,
\* whatever indices the oracle's response contains.
C39_RankedOnce ==
    FocusReturned => \A i, j \in DOMAIN RankedIds : i # j => RankedIds[i] # RankedIds[j]

\* what holds: no task is ranked twice on the fallback path and when no
\* task is actionable
C39_RankedOnceWithoutOracle ==
    (FocusReturned /\ fe_result.strategy # "gemini_ranking")
        => \A i, j \in DOMAIN RankedIds : i # j => RankedIds[i] # RankedIds[j]

\* the oracle names one index twice: the task is ranked twice
C39_SameTaskTwice ==
    /\ FocusReturned
    /\ fe_result.strategy = "gemini_ranking"
    /\ Len(fe_actionable) = 1
    /\ Len(RankedIds) = 2
    /\ RankedIds[1] = RankedIds[2]

\* C40: in every DecisionResponse returned by get_focus_tasks, on the oracle
\* path as on the fallback path, the number of ranked tasks is at most
\* options.max_tasks.
C40_AtMostMaxTasks ==
    FocusReturned => Len(fe_result.ranked_tasks) <= fe_options.max_tasks

\* what holds: the fallback path keeps to max_tasks
C40_FallbackAtMostMaxTasks ==
    (FocusReturned /\ fe_result.strategy # "gemini_ranking")
        => Len(fe_result.ranked_tasks) <= fe_options.max_tasks

\* max_tasks is 1 and the oracle ranks two different tasks: both are returned
C40_TwoRankedForOne ==
    /\ FocusReturned
    /\ fe_result.strategy = "gemini_ranking"
    /\ fe_options.max_tasks = 1
    /\ Len(RankedIds) = 2
    /\ RankedIds[1] # RankedIds[2]

\* the fallback path cuts two actionable tasks down to max_tasks = 1
C40_FallbackCuts ==
    /\ FocusReturned
    /\ fe_result.strategy = "heuristic_fallback"
    /\ fe_options.max_tasks = 1
    /\ Len(fe_actionable) = 2
    /\ Len(RankedIds) = 1

====
